---------------------------- MODULE Spec2Model ----------------------------
(***************************************************************************)
(* Model of the catalyst installation lifecycle manager:                   *)
(*   - the .catalyst.lock protocol of catalyst-cli/src/init.rs             *)
(*     (acquire_init_lock, try_create_lock_file, InitLock::drop),          *)
(*   - initialize (init.rs) and update (update.rs) over a directory,       *)
(*   - write_file_atomic / fs::write as seen by a concurrent reader.       *)
(*                                                                         *)
(* Several specifications share the variables:                             *)
(*   Spec      processes running initialize concurrently on one directory  *)
(*   SpecEmpty the same, on a directory that holds no marker               *)
(*   SpecSolo  one process running initialize, nobody else on the directory*)
(*   SpecUpd   one process: initialize / update / user edits / upgrade     *)
(*   SpecAW    one file write (atomic or direct) against a reader          *)
(***************************************************************************)
EXTENDS Integers, Sequences, FiniteSets, TLC

(***************************************************************************)
(* Bounds                                                                  *)
(***************************************************************************)
\* number of live processes that may run initialize on the directory
NProcs == 2
\* how many times one process may invoke initialize
MaxRuns == 1
\* the releases of the tool: the binary's CATALYST_VERSION is one of 1..MaxVersion
MaxVersion == 2
\* how many files the user edits or deletes by hand
MaxEdits == 1
\* how many operations the process of SpecUpd runs one after the other
MaxRunsUpd == 2
\* in how many pieces the bytes of a file reach the file system
NChunks == 2
\* how many items one collection of a settings file given to merge holds
MaxGiven == 2
\* how many items the collections of the merged settings file hold in all
MaxItems == 3

\* a path that names no file
Absent == [exists |-> FALSE]

\* process ids of the contending processes (two-digit, so that the decimal
\* rendering written into the marker has more than one character)
Procs == 11..(10 + NProcs)
\* a process id that names no process on the host
DeadPid == 10 + NProcs + 1

(***************************************************************************)
(* The marker's content is text.  write!(file, "{}", pid) renders the pid  *)
(* in decimal; pid_str.trim().parse::<u32>() reads it back.                *)
(***************************************************************************)
Digits == <<"0", "1", "2", "3", "4", "5", "6", "7", "8", "9">>

DigitChars == {Digits[i] : i \in 1..10}

DigitVal(c) == (CHOOSE i \in 1..10 : Digits[i] = c) - 1

IsWhitespace(c) == c \in {" ", "\n", "\t"}

RECURSIVE FormatU32(_)
FormatU32(n) ==
    IF n < 10 THEN <<Digits[n + 1]>>
    ELSE FormatU32(n \div 10) \o <<Digits[(n % 10) + 1]>>

RECURSIVE TrimStart(_)
TrimStart(s) ==
    IF s # <<>> /\ IsWhitespace(Head(s)) THEN TrimStart(Tail(s)) ELSE s

RECURSIVE TrimEnd(_)
TrimEnd(s) ==
    IF s # <<>> /\ IsWhitespace(s[Len(s)])
    THEN TrimEnd(SubSeq(s, 1, Len(s) - 1)) ELSE s

Trim(s) == TrimEnd(TrimStart(s))

RECURSIVE DigitsValue(_)
DigitsValue(s) ==
    IF s = <<>> THEN 0
    ELSE 10 * DigitsValue(SubSeq(s, 1, Len(s) - 1)) + DigitVal(s[Len(s)])

\* the Err(_) of parse (process ids are naturals)
ParseErr == 0 - 1

\* acquire_init_lock has not read the marker
NotRead == 0 - 2

\* str::parse::<u32>: an optional leading '+', then one or more decimal
\* digits; anything else is an error.  (A value above u32::MAX is an error
\* too; no marker of the model has more than three digits.)
ParseU32(s) ==
    LET body == IF s # <<>> /\ Head(s) = "+" THEN Tail(s) ELSE s IN
    IF body = <<>> THEN ParseErr
    ELSE IF \E i \in 1..Len(body) : body[i] \notin DigitChars THEN ParseErr
    ELSE DigitsValue(body)

\* a validity test that rejects pid 0 only
is_valid_pid_nonzero(pid) == pid # 0

is_valid_pid(pid) == pid # 0 /\ pid # 1

(***************************************************************************)
(* Files.  A file is Absent or [exists |-> TRUE, data |-> d]; the data of  *)
(* a file is a record that says where its bytes come from.                 *)
(***************************************************************************)
File(d) == [exists |-> TRUE, data |-> d]

\* the bytes of file f of the skills embedded in release v of the tool
Bundled(v, f) == [src |-> "bundled", ver |-> v, of |-> f]

\* bytes typed by the user
UserData == [src |-> "user", ver |-> 0, of |-> <<>>]

\* wrapper-template.{sh,ps1} with {{BINARY_NAME}} replaced
Wrapper(v, name) == [src |-> "wrapper", ver |-> v, of |-> <<name>>]

\* Sha256::digest(contents) rendered as hex: deterministic, and two different
\* contents have different digests
Sha256(d) == [sha256 |-> d]

\* format!("{}\n", CATALYST_VERSION)
VersionText(v) == [text |-> v, newline |-> TRUE]

\* the content as read, not trimmed: with its newline it equals no version
TrimVersion_untrimmed(d) == IF d.newline THEN 0 - 1 ELSE d.text

\* content.trim().to_string()
TrimVersion(d) == d.text

AVAILABLE_SKILLS ==
    {"skill-developer", "backend-dev-guidelines", "frontend-dev-guidelines",
     "route-tester", "error-tracking"}

\* static SKILLS: Dir = include_dir!(".claude/skills"): the embedded files, each
\* with its path relative to the embedded root (what File::path() returns)
EmbeddedFiles ==
    { <<"skill-developer", "SKILL.md">>,
      <<"skill-developer", "resources", "guide.md">>,
      <<"route-tester", "SKILL.md">> }

\* a skill a former release installed and this release no longer embeds
RetiredSkill == "retired-skill"

Last(path) == path[Len(path)]

IsPrefix(a, b) == Len(a) <= Len(b) /\ SubSeq(b, 1, Len(a)) = a

\* Dir::get_dir(path).is_some()
EmbeddedDirExists(dir) == \E f \in EmbeddedFiles : Len(dir) < Len(f) /\ IsPrefix(dir, f)

\* Dir::files()
EmbeddedFilesOf(dir) == {f \in EmbeddedFiles : Len(f) = Len(dir) + 1 /\ IsPrefix(dir, f)}

\* Dir::dirs()
EmbeddedDirsOf(dir) ==
    {SubSeq(f, 1, Len(dir) + 1) : f \in {g \in EmbeddedFiles : Len(g) > Len(dir) + 1 /\ IsPrefix(dir, g)}}

\* init.rs copy_dir_recursive(source, target): the writes it makes, as pairs
\* <<target path below .claude/skills, embedded file>>.  The target of a file
\* is target.join(file.path().file_name()).
RECURSIVE copy_dir_recursive(_, _)
copy_dir_recursive(source, target) ==
    {<<target \o <<Last(f)>>, f>> : f \in EmbeddedFilesOf(source)}
    \cup UNION {copy_dir_recursive(d, target \o <<Last(d)>>) : d \in EmbeddedDirsOf(source)}

\* update.rs copy_skill_files(source_dir, target_dir): the writes it makes.
\* The target of a file is target_dir.join(file.path()), and file.path() is
\* the path relative to the embedded root, not to source_dir.
RECURSIVE copy_skill_files(_, _)
copy_skill_files(source_dir, target_dir) ==
    {<<target_dir \o f, f>> : f \in EmbeddedFilesOf(source_dir)}
    \cup UNION {copy_skill_files(d, target_dir \o <<Last(d)>>) : d \in EmbeddedDirsOf(source_dir)}

EmbeddedSkills == {f[1] : f \in EmbeddedFiles}

\* skills_dir.join(skill_name).join("SKILL.md")
SkillMd(skill) == <<skill, "SKILL.md">>

\* every path below .claude/skills that the model follows
TreePaths ==
    {w[1] : w \in UNION {copy_dir_recursive(<<s>>, <<s>>) \cup copy_skill_files(<<s>>, <<s>>)
                          : s \in EmbeddedSkills}}
    \cup {SkillMd(RetiredSkill)}

SkillNames == EmbeddedSkills \cup {RetiredSkill}

WrapperNames == {"skill-activation-prompt", "file-change-tracker"}

(***************************************************************************)
(* State                                                                   *)
(***************************************************************************)
VARIABLES
    alive,      \* the process ids that currently exist on the host
    lock,       \* .catalyst.lock: Absent, or [exists, creator, content]
    pc,         \* each process's position
    cfg,        \* each process's arguments of the current run
    pidRead,    \* acquire_init_lock's local `pid` (parsed marker content)
    result,     \* the report or error of each process's current/last run
    runs,       \* how many times each process has invoked an operation
    overlap,    \* history: the process's run overlapped another process's run
    tool,       \* CATALYST_VERSION of the installed binary
    claudeDir,  \* .claude exists
    dirs,       \* .claude/{hooks,skills,agents,commands} exist
    skillDirs,  \* the directories .claude/skills/<skill> that exist
    hooks,      \* .claude/hooks/<wrapper>.sh, by wrapper
    settings,   \* .claude/settings.json
    tree,       \* the files below .claude/skills/<skill>/, by path
    rules,      \* .claude/skills/skill-rules.json
    skillsManifest, \* .claude/skills/.catalyst-hashes.json
    rootManifest,   \* .catalyst-hashes.json
    versionFile,    \* .catalyst-version
    edits,      \* how many files the user has edited or deleted
    dest,       \* a destination path being written: Absent or a file
    temp,       \* the NamedTempFile next to it: Absent, or its chunks
    wr,         \* the writing call: its position, error and outcome
    seen        \* what a reader of the destination path has observed

lockVars == <<alive, lock, pidRead, overlap>>

procVars == <<pc, cfg, result, runs>>

diskVars == <<claudeDir, dirs, skillDirs, hooks, settings, tree, rules,
              skillsManifest, rootManifest, versionFile>>

awVars == <<dest, temp, wr, seen>>

vars == <<lockVars, procVars, diskVars, tool, edits, awVars>>

NoResult == [kind |-> "none"]

\* the marker contents a directory may start with: a marker left behind by
\* an earlier process that no longer exists
StaleContents ==
    { FormatU32(DeadPid), <<"+">> \o FormatU32(DeadPid),
      <<" ">> \o FormatU32(DeadPid) \o <<"\n">>,
      <<"0">>, <<"1">>, <<"x">>, <<>>, <<" ", "\n", "\t">> }

LeftBehind(content) == [exists |-> TRUE, creator |-> DeadPid, content |-> content]

(***************************************************************************)
(* Positions of a process                                                  *)
(***************************************************************************)
\* inside acquire_init_lock
AcquirePcs == {"open1", "pidwrite1", "read", "probe", "remove", "open2", "pidwrite2"}

\* initialize after acquire_init_lock returned the guard
BodyPcs == {"mkdirs", "wrappers", "settings", "skills", "rules", "hashes", "version"}

\* inside update
UpdatePcs == {"u_read_version", "u_wrappers", "u_skills", "u_version"}

\* the process holds an InitLock guard
Holding(p) == pc[p] \in BodyPcs \cup {"drop"}

\* the process is inside a run of initialize or update
Running(p) == pc[p] \in AcquirePcs \cup BodyPcs \cup {"drop"} \cup UpdatePcs

Goto(p, where) == pc' = [pc EXCEPT ![p] = where]

Return(p, r) ==
    /\ pc' = [pc EXCEPT ![p] = "done"]
    /\ result' = [result EXCEPT ![p] = r]

\* CatalystError::Io(e)
IoError(err) == [kind |-> "Io", err |-> err]

\* CatalystError::InitInProgress { pid, lock_file }
InitInProgress(pid) == [kind |-> "InitInProgress", pid |-> pid]

\* InitReport::new()
NewInitReport ==
    [kind |-> "Ok", created_dirs |-> FALSE, installed_hooks |-> {},
     settings_created |-> FALSE, installed_skills |-> {}, warnings |-> {},
     version_file_created |-> FALSE]

\* UpdateReport::new()
NewUpdateReport ==
    [kind |-> "Ok", updated_skills |-> {}, skipped_skills |-> {},
     updated_hooks |-> {}, success |-> TRUE, errors |-> {}]

(***************************************************************************)
(* acquire_init_lock and InitLock::drop                                    *)
(***************************************************************************)
\* OpenOptions::new().write(true).create_new(true).open(lock_file):
\* the first half of try_create_lock_file.  The file is created empty.
OpenCreateNew(p, onCreated) ==
    /\ lock = Absent
    /\ lock' = [exists |-> TRUE, creator |-> p, content |-> <<>>]
    /\ Goto(p, onCreated)

\* write!(file, "{}", pid): the second half of try_create_lock_file.  The
\* write goes to the file the process opened; if that file has been unlinked
\* meanwhile the write succeeds all the same and changes no visible file.
WritePid(p) ==
    /\ lock' = IF lock.exists /\ lock.creator = p
               THEN [lock EXCEPT !.content = FormatU32(p)]
               ELSE lock
    /\ result' = [result EXCEPT ![p] = NewInitReport]
    /\ Goto(p, "mkdirs")

\* the outcomes `kill -0 pid` can have (pid 0 names the caller's own group)
ProbeOutcomes(pid) ==
    IF pid = 0 THEN {"signalled", "cannot_run"}
    ELSE IF pid \in alive THEN {"signalled", "not_permitted", "cannot_run"}
    ELSE {"no_such_process", "cannot_run"}

\* a liveness test with the opposite answer
is_process_running_inverted(outcome) == outcome # "signalled"

\* Command::new("kill")...output().map(|o| o.status.success()).unwrap_or(false)
is_process_running(outcome) == outcome = "signalled"

\* history: a run that starts while another process is inside a run overlaps it
Overlaps(p) ==
    [q \in Procs |-> IF q = p THEN \E r \in Procs \ {p} : Running(r)
                     ELSE overlap[q] \/ Running(q)]

\* initialize(config) is invoked: let _lock = acquire_init_lock(..)?
Initialize(p, c) ==
    /\ pc[p] \in {"idle", "done"}
    /\ p \in alive
    /\ c.op = "init"
    /\ runs' = [runs EXCEPT ![p] = @ + 1]
    /\ cfg' = [cfg EXCEPT ![p] = c]
    /\ result' = [result EXCEPT ![p] = NoResult]
    /\ pidRead' = [pidRead EXCEPT ![p] = NotRead]
    /\ overlap' = Overlaps(p)
    /\ Goto(p, "open1")
    /\ UNCHANGED <<awVars, alive, lock, diskVars, tool, edits>>

\* first try_create_lock_file: the exclusive create
Open1(p) ==
    /\ pc[p] = "open1"
    /\ \/ OpenCreateNew(p, "pidwrite1")
       \/ /\ lock.exists                 \* ErrorKind::AlreadyExists
          /\ Goto(p, "read")
          /\ UNCHANGED lock
    /\ UNCHANGED <<awVars, alive, pidRead, overlap, cfg, result, runs, diskVars, tool, edits>>

PidWrite1(p) ==
    /\ pc[p] = "pidwrite1"
    /\ WritePid(p)
    /\ UNCHANGED <<awVars, alive, pidRead, overlap, cfg, runs, diskVars, tool, edits>>

\* fs::read_to_string(&lock_file)? and pid_str.trim().parse::<u32>()
ReadMarker(p) ==
    /\ pc[p] = "read"
    /\ IF ~lock.exists
       THEN /\ Return(p, IoError("NotFound"))
            /\ UNCHANGED pidRead
       ELSE LET pid == ParseU32(Trim(lock.content)) IN
            /\ pidRead' = [pidRead EXCEPT ![p] = pid]
            /\ Goto(p, IF pid # ParseErr /\ is_valid_pid(pid)
                       THEN "probe" ELSE "remove")
            /\ UNCHANGED result
    /\ UNCHANGED <<awVars, alive, lock, overlap, cfg, runs, diskVars, tool, edits>>

\* if is_process_running(pid) { Err(InitInProgress) } else { remove }
Probe(p) ==
    /\ pc[p] = "probe"
    /\ \E outcome \in ProbeOutcomes(pidRead[p]) :
         IF is_process_running(outcome)
         THEN Return(p, InitInProgress(pidRead[p]))
         ELSE Goto(p, "remove") /\ UNCHANGED result
    /\ UNCHANGED <<awVars, lockVars, cfg, runs, diskVars, tool, edits>>

\* fs::remove_file(&lock_file)?: removes whatever file has the name now
RemoveMarker(p) ==
    /\ pc[p] = "remove"
    /\ IF ~lock.exists
       THEN Return(p, IoError("NotFound")) /\ UNCHANGED lock
       ELSE lock' = Absent /\ Goto(p, "open2") /\ UNCHANGED result
    /\ UNCHANGED <<awVars, alive, pidRead, overlap, cfg, runs, diskVars, tool, edits>>

\* a retry that, finding a marker again, starts over with the read
Open2_retrying(p) ==
    /\ pc[p] = "open2"
    /\ \/ OpenCreateNew(p, "pidwrite2")
       \/ /\ lock.exists
          /\ Goto(p, "read")
          /\ UNCHANGED lock
    /\ UNCHANGED <<awVars, alive, pidRead, overlap, cfg, result, runs, diskVars, tool, edits>>

\* the single retry of try_create_lock_file; its error is returned as it is
Open2(p) ==
    /\ pc[p] = "open2"
    /\ \/ OpenCreateNew(p, "pidwrite2") /\ UNCHANGED result
       \/ /\ lock.exists
          /\ Return(p, IoError("AlreadyExists"))
          /\ UNCHANGED lock
    /\ UNCHANGED <<awVars, alive, pidRead, overlap, cfg, runs, diskVars, tool, edits>>

PidWrite2(p) ==
    /\ pc[p] = "pidwrite2"
    /\ WritePid(p)
    /\ UNCHANGED <<awVars, alive, pidRead, overlap, cfg, runs, diskVars, tool, edits>>

\* a release that leaves the marker where it is
release_init_lock_noop == lock' = lock

\* release_init_lock: if lock_file.exists() { fs::remove_file(lock_file)? }
release_init_lock == lock' = Absent

\* InitLock::drop, when initialize returns (with the report or with an error)
Drop(p) ==
    /\ pc[p] = "drop"
    /\ release_init_lock
    /\ Goto(p, "done")
    /\ UNCHANGED <<awVars, alive, pidRead, overlap, cfg, result, runs, diskVars, tool, edits>>

\* the process terminates (killed, crashed, or exited): no destructor runs
Die(p) ==
    /\ p \in alive
    /\ alive' = alive \ {p}
    /\ Goto(p, "dead")
    /\ UNCHANGED <<awVars, lock, pidRead, overlap, cfg, result, runs, diskVars, tool, edits>>

(***************************************************************************)
(* initialize, under the guard (init.rs 954-1010)                          *)
(***************************************************************************)
Report(p, field, value) == result' = [result EXCEPT ![p][field] = value]

\* CatalystError::InvalidPath(".claude directory not found ...")
ClaudeDirNotFound == [kind |-> "InvalidPath", what |-> ".claude directory not found"]

\* create_directory_structure without its test of the .claude directory
CreateDirectoryStructure_unchecked(p) ==
    /\ pc[p] = "mkdirs"
    /\ dirs' = TRUE
    /\ Report(p, "created_dirs", ~dirs \/ cfg[p].force)
    /\ Goto(p, "wrappers")
    /\ UNCHANGED <<awVars, lockVars, cfg, runs, tool, edits, claudeDir, skillDirs, hooks,
                   settings, tree, rules, skillsManifest, rootManifest, versionFile>>

\* create_directory_structure(&config.directory, config.force)?
CreateDirectoryStructure(p) ==
    /\ pc[p] = "mkdirs"
    /\ IF ~claudeDir
       THEN /\ result' = [result EXCEPT ![p] = ClaudeDirNotFound]
            /\ Goto(p, "drop")
            /\ UNCHANGED dirs
       ELSE /\ dirs' = TRUE
            /\ Report(p, "created_dirs", ~dirs \/ cfg[p].force)
            /\ Goto(p, "wrappers")
    /\ UNCHANGED <<awVars, lockVars, cfg, runs, tool, edits, claudeDir, skillDirs, hooks,
                   settings, tree, rules, skillsManifest, rootManifest, versionFile>>

\* the wrappers generate_wrapper_scripts writes for its two flags
WrappersFor(install_hooks, install_tracker) ==
    (IF install_hooks THEN {"skill-activation-prompt"} ELSE {})
    \cup (IF install_tracker THEN {"file-change-tracker"} ELSE {})

\* generate_wrapper_scripts: fs::write(&wrapper_path, content) per wrapper
generate_wrapper_scripts(install_hooks, install_tracker) ==
    [w \in WrapperNames |->
        IF w \in WrappersFor(install_hooks, install_tracker)
        THEN File(Wrapper(tool, w)) ELSE hooks[w]]

\* CatalystError::Io(e) of an fs::write, fs::set_permissions or
\* write_file_atomic that the file system refuses
WriteRefused == IoError("StorageFull")

\* what generate_wrapper_scripts leaves when one of its writes is refused:
\* the wrappers written before it, the refused one untouched
RefusedWrapperWrites(install_hooks, install_tracker) ==
    {[w \in WrapperNames |->
         IF w \in done THEN File(Wrapper(tool, w)) ELSE hooks[w]] :
       done \in {{}} \cup
                 (IF install_hooks /\ install_tracker
                  THEN {{"skill-activation-prompt"}} ELSE {})}

\* generate_wrapper_scripts(..)?: an Err ends initialize
GenerateWrapperScripts(p) ==
    /\ pc[p] = "wrappers"
    /\ \/ /\ hooks' = generate_wrapper_scripts(cfg[p].install_hooks, cfg[p].install_tracker)
          /\ Report(p, "installed_hooks",
                    WrappersFor(cfg[p].install_hooks, cfg[p].install_tracker))
          /\ Goto(p, "settings")
       \/ /\ WrappersFor(cfg[p].install_hooks, cfg[p].install_tracker) # {}
          /\ hooks' \in RefusedWrapperWrites(cfg[p].install_hooks, cfg[p].install_tracker)
          /\ result' = [result EXCEPT ![p] = WriteRefused]
          /\ Goto(p, "drop")
    /\ UNCHANGED <<awVars, lockVars, cfg, runs, tool, edits, claudeDir, dirs, skillDirs,
                   settings, tree, rules, skillsManifest, rootManifest, versionFile>>

\* create_settings_json: the document is built from the flags and written
\* with write_file_atomic, whatever is at the path
SettingsDoc(install_hooks, install_tracker) ==
    [src |-> "settings", ver |-> 0, of |-> <<WrappersFor(install_hooks, install_tracker)>>]

\* the bytes of a document whose write stopped after the file was truncated
TruncatedDoc == [src |-> "truncated", ver |-> 0, of |-> <<>>]

\* what write_file_atomic leaves at a destination when it returns Err: the
\* file as it was (the temporary file could not be filled or renamed), or
\* the file truncated by the fs::write it fell back to
FailedAtomicWrite(f, truncated) == {f, File(truncated)}

\* create_settings_json(..)?: an Err ends initialize
CreateSettingsJson(p) ==
    /\ pc[p] = "settings"
    /\ \/ /\ settings' = File(SettingsDoc(cfg[p].install_hooks, cfg[p].install_tracker))
          /\ Report(p, "settings_created", TRUE)
          /\ Goto(p, IF cfg[p].skills = {} THEN "version" ELSE "skills")
       \/ /\ settings' \in FailedAtomicWrite(settings, TruncatedDoc)
          /\ result' = [result EXCEPT ![p] = WriteRefused]
          /\ Goto(p, "drop")
    /\ UNCHANGED <<awVars, lockVars, cfg, runs, tool, edits, claudeDir, dirs, skillDirs,
                   hooks, tree, rules, skillsManifest, rootManifest, versionFile>>

\* install_skill(target_dir, skill_id, force) returns Ok
install_skill_ok(skill_id, force) ==
    /\ skill_id \in AVAILABLE_SKILLS
    /\ ~(skill_id \in skillDirs /\ ~force)
    /\ EmbeddedDirExists(<<skill_id>>)

\* the tree after `writes` (pairs <<target, embedded file>>) were written
\* with fs::write
TreeAfter(writes) ==
    [t \in TreePaths |->
        IF \E w \in writes : w[1] = t
        THEN File(Bundled(tool, (CHOOSE w \in writes : w[1] = t)[2]))
        ELSE tree[t]]

\* install_skills: every skill whose install_skill fails is reported on
\* stderr and left out of the list; the call itself returns Ok
\* the writes of copy_dir_recursive(<<s>>, <<s>>) made before the fs::write
\* that is refused: none, or the files of the skill's own directory (the
\* refused file lies in a subdirectory, copied after them)
RefusedCopy(s, reached) ==
    IF reached THEN {w \in copy_dir_recursive(<<s>>, <<s>>) : Len(w[1]) = 2} ELSE {}

InstallSkills(p) ==
    /\ pc[p] = "skills"
    /\ LET accepted == {s \in cfg[p].skills : install_skill_ok(s, cfg[p].force)} IN
       \E refused \in SUBSET accepted :
       \E deep \in SUBSET refused :
          LET installed == accepted \ refused IN
          /\ skillDirs' = skillDirs \cup accepted
          /\ tree' = TreeAfter(UNION ({copy_dir_recursive(<<s>>, <<s>>) : s \in installed}
                                       \cup {RefusedCopy(s, s \in deep) : s \in refused}))
          /\ Report(p, "installed_skills", installed)
          /\ Goto(p, IF installed = {} THEN "version" ELSE "rules")
    /\ UNCHANGED <<awVars, lockVars, cfg, runs, tool, edits, claudeDir, dirs, hooks,
                   settings, rules, skillsManifest, rootManifest, versionFile>>

\* generate_skill_rules: write_file_atomic(skill-rules.json)
\* if let Err(e) = generate_skill_rules(..) { report.warnings.push(..) }
GenerateSkillRules(p) ==
    /\ pc[p] = "rules"
    /\ \/ /\ rules' = File([src |-> "rules", ver |-> 0,
                             of |-> <<result[p].installed_skills>>])
          /\ UNCHANGED result
       \/ /\ rules' \in FailedAtomicWrite(rules, TruncatedDoc)
          /\ Report(p, "warnings",
                    result[p].warnings \cup {"Failed to generate skill-rules.json"})
    /\ Goto(p, "hashes")
    /\ UNCHANGED <<awVars, lockVars, cfg, runs, tool, edits, claudeDir, dirs, skillDirs,
                   hooks, settings, tree, skillsManifest, rootManifest, versionFile>>

\* collect_file_hashes over the directories of the installed skills: every
\* file found there, keyed by its path relative to .claude/skills
collect_file_hashes(installed_skills) ==
    LET found == {t \in TreePaths : t[1] \in installed_skills /\ tree[t].exists} IN
    [t \in found |-> Sha256(tree[t].data)]

\* the document generate_skill_hashes serialises: a bare path -> digest object
HashMapDoc(map) == [fmt |-> "HashMap", map |-> map]

\* generate_skill_hashes: hashes_path = target_dir/.claude/skills/.catalyst-hashes.json
\* the bytes of a manifest whose write stopped after the file was truncated
TruncatedManifest == [fmt |-> "truncated", map |-> <<>>]

\* a failed manifest write that initialize does not record
generate_skill_hashes_unrecorded(p) == UNCHANGED result

\* the warning initialize records for a manifest it could not write
generate_skill_hashes_failed(p) ==
    Report(p, "warnings", result[p].warnings \cup {"Failed to generate .catalyst-hashes.json"})

\* if let Err(e) = generate_skill_hashes(..) { report.warnings.push(..) }
GenerateSkillHashes(p) ==
    /\ pc[p] = "hashes"
    /\ \/ /\ skillsManifest' =
                File(HashMapDoc(collect_file_hashes(result[p].installed_skills)))
          /\ UNCHANGED result
       \/ /\ skillsManifest' \in FailedAtomicWrite(skillsManifest, TruncatedManifest)
          /\ generate_skill_hashes_failed(p)
    /\ Goto(p, "version")
    /\ UNCHANGED <<awVars, lockVars, cfg, runs, tool, edits, claudeDir, dirs, skillDirs,
                   hooks, settings, tree, rules, rootManifest, versionFile>>

\* the version file is left as it is
write_version_file_skipped == UNCHANGED versionFile

\* write_version_file: fs::write(.catalyst-version, CATALYST_VERSION + "\n")
write_version_file == versionFile' = File(VersionText(tool))

\* CatalystError::FileWriteFailed { path: version_path, source: e }
FileWriteFailed == [kind |-> "FileWriteFailed", path |-> ".catalyst-version"]

\* the version file fs::write leaves when it fails: File::create fails and
\* the path is untouched, or File::create has truncated the file and
\* write_all fails
EmptyText == [text |-> 0 - 1, newline |-> FALSE]

FailedVersionWrite == {versionFile, File(EmptyText)}

\* if let Err(e) = write_version_file(..) { report.warnings.push(..) }
\* else { report.version_file_created = true }.  fs::write succeeds or
\* fails as the file system decides.
WriteVersionFile(p) ==
    /\ pc[p] = "version"
    /\ \/ /\ write_version_file
          /\ Report(p, "version_file_created", TRUE)
       \/ /\ versionFile' \in FailedVersionWrite
          /\ Report(p, "warnings", result[p].warnings \cup {"Failed to write .catalyst-version"})
    /\ Goto(p, "drop")
    /\ UNCHANGED <<awVars, lockVars, cfg, runs, tool, edits, claudeDir, dirs, skillDirs,
                   hooks, settings, tree, rules, skillsManifest, rootManifest>>

(***************************************************************************)
(* update (update.rs 44-307).  update takes no lock.                       *)
(***************************************************************************)
\* CatalystError::InvalidConfig("No .catalyst-version file found ...")
NotInitialized == [kind |-> "InvalidConfig", what |-> "No .catalyst-version file found"]

\* the document regenerate_hashes serialises: a CatalystHashes struct
\* (updated_at, a wall-clock timestamp, is left out)
CatalystHashesDoc(version, skills) ==
    [fmt |-> "CatalystHashes", version |-> version, skills |-> skills]

\* serde_json::from_str::<CatalystHashes>(&content) is Ok: the struct's
\* fields are required, so a bare path -> digest object does not parse
ParsesAsCatalystHashes(doc) == doc.fmt = "CatalystHashes"

\* update(target_dir, force) is invoked
Update(p, c) ==
    /\ pc[p] \in {"idle", "done"}
    /\ p \in alive
    /\ c.op = "update"
    /\ runs' = [runs EXCEPT ![p] = @ + 1]
    /\ cfg' = [cfg EXCEPT ![p] = c]
    /\ result' = [result EXCEPT ![p] = NewUpdateReport]
    /\ overlap' = Overlaps(p)
    /\ Goto(p, "u_read_version")
    /\ UNCHANGED <<awVars, alive, lock, pidRead, diskVars, tool, edits>>

\* update without its `None =>` arm: a missing version file counts as an
\* outdated one
ReadVersionFile_unchecked(p) ==
    /\ pc[p] = "u_read_version"
    /\ IF versionFile.exists /\ versionFile.data.text = tool /\ ~cfg[p].force
       THEN Return(p, NewUpdateReport)
       ELSE Goto(p, "u_wrappers") /\ UNCHANGED result
    /\ UNCHANGED <<awVars, lockVars, cfg, runs, diskVars, tool, edits>>

\* read_version_file(target_dir)? and the version comparison
ReadVersionFile(p) ==
    /\ pc[p] = "u_read_version"
    /\ IF ~versionFile.exists
       THEN Return(p, NotInitialized)
       ELSE IF TrimVersion(versionFile.data) = tool /\ ~cfg[p].force
       THEN Return(p, NewUpdateReport)
       ELSE Goto(p, "u_wrappers") /\ UNCHANGED result
    /\ UNCHANGED <<awVars, lockVars, cfg, runs, diskVars, tool, edits>>

\* generate_wrapper_scripts(target_dir, true, true, platform), its error
\* (the hooks directory is missing) recorded in the report
RegenerateWrappers(p) ==
    /\ pc[p] = "u_wrappers"
    /\ IF dirs
       THEN /\ hooks' = generate_wrapper_scripts(TRUE, TRUE)
            /\ Report(p, "updated_hooks", WrapperNames)
       ELSE /\ result' = [result EXCEPT ![p].errors = @ \cup {"Failed to update wrapper scripts"},
                                        ![p].success = FALSE]
            /\ UNCHANGED hooks
    /\ Goto(p, "u_skills")
    /\ UNCHANGED <<awVars, lockVars, cfg, runs, tool, edits, claudeDir, dirs, skillDirs,
                   settings, tree, rules, skillsManifest, rootManifest, versionFile>>

\* the bytes `d` in a file the process may not read (mode 000)
Unreadable(d) == [src |-> "unreadable", ver |-> 0, of |-> <<d>>]

\* compute_file_hash(skill_path) is Err(FileReadFailed) with a source other
\* than NotFound
HashFails(n) == tree[SkillMd(n)].exists /\ tree[SkillMd(n)].data.src = "unreadable"

\* compute_file_hash(skills_dir/<skill>/SKILL.md) of the tree `t`
compute_file_hash(t, skill_name) == Sha256(t[SkillMd(skill_name)].data)

\* update_skills: if current_hash != *expected_hash && !force { skip }
IsSkipped(current_hash, expected_hash, force) ==
    current_hash # expected_hash /\ ~force

\* the entries of the stored manifest whose SKILL.md exists
TrackedPresent(stored) == {n \in DOMAIN stored : tree[SkillMd(n)].exists}

\* update_skills' `skipped`
SkippedSkills(stored, force) ==
    { [name |-> n, reason |-> "Modified locally",
       current_hash |-> compute_file_hash(tree, n), expected_hash |-> stored[n]]
      : n \in {m \in TrackedPresent(stored) :
                 IsSkipped(compute_file_hash(tree, m), stored[m], force)} }

\* update_skills' `updated`: not skipped, and SKILLS.get_dir(name) is Some
UpdatedSkills(stored, force) ==
    {n \in TrackedPresent(stored) :
        /\ ~IsSkipped(compute_file_hash(tree, n), stored[n], force)
        /\ EmbeddedDirExists(<<n>>)}

\* a manifest rebuilt from the updated skills alone
regenerate_hashes_updated_only(doc, newTree, updated) ==
    CatalystHashesDoc(tool,
        [n \in {u \in updated : newTree[SkillMd(u)].exists} |-> compute_file_hash(newTree, n)])

\* regenerate_hashes(target_dir, updated): the manifest is read again, the
\* entry of every updated skill whose SKILL.md exists is replaced by the
\* digest of that file, every other entry is kept, the version is set
regenerate_hashes(doc, newTree, updated) ==
    CatalystHashesDoc(tool,
        [n \in DOMAIN doc.skills \cup {u \in updated : newTree[SkillMd(u)].exists} |->
            IF n \in updated /\ newTree[SkillMd(n)].exists
            THEN compute_file_hash(newTree, n)
            ELSE doc.skills[n]])

\* update_skills(target_dir, force), its result stored in the report
UpdateSkills(p) ==
    /\ pc[p] = "u_skills"
    /\ IF ~rootManifest.exists
       THEN \* no hashes file: Ok((vec![], vec![]))
            UNCHANGED <<result, tree, skillDirs, rootManifest>>
       ELSE IF ~ParsesAsCatalystHashes(rootManifest.data)
       THEN /\ result' = [result EXCEPT ![p].errors = @ \cup {"Failed to update skills"},
                                        ![p].success = FALSE]
            /\ UNCHANGED <<tree, skillDirs, rootManifest>>
       ELSE IF \E n \in DOMAIN rootManifest.data.skills : HashFails(n)
       THEN \* Err(e) => return Err(e): the loop over the HashMap stops at the
            \* first entry it cannot hash; the entries it met before, in the
            \* map's arbitrary order, have been handled, and regenerate_hashes
            \* is not reached
            \E met \in SUBSET {n \in DOMAIN rootManifest.data.skills : ~HashFails(n)} :
               LET stored == rootManifest.data.skills
                   copied == UpdatedSkills(stored, cfg[p].force) \cap met
               IN  /\ tree' = TreeAfter(UNION {copy_skill_files(<<n>>, <<n>>) : n \in copied})
                   /\ skillDirs' = skillDirs \cup copied
                   /\ result' = [result EXCEPT ![p].errors = @ \cup {"Failed to update skills"},
                                               ![p].success = FALSE]
                   /\ UNCHANGED rootManifest
       ELSE LET stored  == rootManifest.data.skills
                updated == UpdatedSkills(stored, cfg[p].force)
                skipped == SkippedSkills(stored, cfg[p].force)
                newTree == TreeAfter(UNION {copy_skill_files(<<n>>, <<n>>) : n \in updated})
            IN  /\ tree' = newTree
                /\ skillDirs' = skillDirs \cup updated
                /\ rootManifest' =
                     IF updated = {} THEN rootManifest
                     ELSE File(regenerate_hashes(rootManifest.data, newTree, updated))
                /\ result' = [result EXCEPT ![p].updated_skills = updated,
                                            ![p].skipped_skills = skipped]
    /\ Goto(p, "u_version")
    /\ UNCHANGED <<awVars, lockVars, cfg, runs, tool, edits, claudeDir, dirs, hooks,
                   settings, rules, skillsManifest, versionFile>>

\* write_version_file(target_dir)?; Ok(report).  fs::write succeeds or
\* fails as the file system decides.
UpdateVersionFile(p) ==
    /\ pc[p] = "u_version"
    /\ \/ /\ write_version_file
          /\ Goto(p, "done")
          /\ UNCHANGED result
       \/ /\ versionFile' \in FailedVersionWrite
          /\ Return(p, FileWriteFailed)
    /\ UNCHANGED <<awVars, lockVars, cfg, runs, tool, edits, claudeDir, dirs, skillDirs,
                   hooks, settings, tree, rules, skillsManifest, rootManifest>>

(***************************************************************************)
(* ClaudeSettings (settings.rs 85-318) and settings-manager merge          *)
(* (settings_manager.rs 237-278).  A hook configuration is named by the    *)
(* wrapper its command runs.                                               *)
(***************************************************************************)
\* enum HookEvent
HookEvents == {"UserPromptSubmit", "PostToolUse", "Stop"}

McpServers == {"mysql", "playwright"}

AllowPatterns == {"Edit:*", "Write:*"}

\* permissions: None
NoPermissions == [some |-> FALSE]

\* permissions: Some(Permissions { allow, default_mode })
SomePermissions(allow, default_mode) ==
    [some |-> TRUE, allow |-> allow, default_mode |-> default_mode]

\* ClaudeSettings::default()
DefaultSettings ==
    [enable_all_project_mcp_servers |-> FALSE, enabled_mcpjson_servers |-> <<>>,
     permissions |-> NoPermissions, hooks |-> <<>>]

\* the settings.json that serialises the struct `s`
ClaudeSettingsDoc(s) == [src |-> "ClaudeSettings", ver |-> 0, of |-> <<s>>]

\* ClaudeSettings::read(path) is Ok
ParsesAsClaudeSettings(f) == f.exists /\ f.data.src = "ClaudeSettings"

Range(seq) == {seq[i] : i \in 1..Len(seq)}

\* for x in other { if !existing.contains(&x) { vec.push(x) } }, `existing`
\* being the HashSet collected from the vector before the loop
PushUnlessExisting(vec, other) ==
    LET existing == Range(vec)
        IsNew(x) == x \notin existing
    IN  vec \o SelectSeq(other, IsNew)

\* the merge of the permissions (settings.rs 293-310)
MergePermissions(mine, theirs) ==
    IF ~theirs.some THEN mine
    ELSE IF ~mine.some THEN theirs
    ELSE SomePermissions(PushUnlessExisting(mine.allow, theirs.allow),
                         IF theirs.default_mode # "" THEN theirs.default_mode
                         ELSE mine.default_mode)

\* self.hooks.get(&event), an absent entry read as no configuration
HooksOf(s, event) == IF event \in DOMAIN s.hooks THEN s.hooks[event] ELSE <<>>

\* for (event, configs) in other.hooks
\*     { self.hooks.entry(event).or_default().extend(configs) }
MergeHooks(mine, theirs) ==
    [e \in DOMAIN mine.hooks \cup DOMAIN theirs.hooks |->
        HooksOf(mine, e) \o HooksOf(theirs, e)]

\* ClaudeSettings::merge(&mut self, other)
merge(self, other) ==
    [enable_all_project_mcp_servers |->
        self.enable_all_project_mcp_servers \/ other.enable_all_project_mcp_servers,
     enabled_mcpjson_servers |->
        PushUnlessExisting(self.enabled_mcpjson_servers, other.enabled_mcpjson_servers),
     permissions |-> MergePermissions(self.permissions, other.permissions),
     hooks |-> MergeHooks(self, other)]

\* the vectors of at most n items of S
VecsUpTo(S, n) == UNION {[1..k -> S] : k \in 0..n}

\* the settings files given to merge: each sets one field and leaves the
\* others at their default
MergeInputs ==
    {[DefaultSettings EXCEPT !.enable_all_project_mcp_servers = TRUE]}
    \cup {[DefaultSettings EXCEPT !.enabled_mcpjson_servers = v] :
             v \in VecsUpTo(McpServers, MaxGiven)}
    \cup {[DefaultSettings EXCEPT !.permissions = SomePermissions(v, m)] :
             v \in VecsUpTo(AllowPatterns, MaxGiven), m \in {"", "acceptEdits"}}
    \cup {[DefaultSettings EXCEPT !.hooks = [e \in {event} |-> v]] :
             event \in HookEvents, v \in VecsUpTo(WrapperNames, MaxGiven) \ {<<>>}}

AllowOf(s) == IF s.permissions.some THEN s.permissions.allow ELSE <<>>

RECURSIVE HookCount(_, _)
HookCount(s, events) ==
    IF events = {} THEN 0
    ELSE LET e == CHOOSE x \in events : TRUE
         IN  Len(s.hooks[e]) + HookCount(s, events \ {e})

\* the number of items the collections of `s` hold
ItemCount(s) ==
    Len(s.enabled_mcpjson_servers) + Len(AllowOf(s)) + HookCount(s, DOMAIN s.hooks)

\* settings-manager merge <base> <merge>, written to the base file: both
\* files are read, base.merge(other), validate (which accepts every hook
\* configuration followed here), ClaudeSettings::write
MergeSettings(other) ==
    /\ ParsesAsClaudeSettings(settings)
    /\ LET merged == merge(settings.data.of[1], other) IN
       /\ ItemCount(merged) <= MaxItems
       /\ settings' = File(ClaudeSettingsDoc(merged))
    /\ UNCHANGED <<awVars, lockVars, procVars, tool, edits, claudeDir, dirs, skillDirs, hooks,
                   tree, rules, skillsManifest, rootManifest, versionFile>>

(***************************************************************************)
(* catalyst status --fix (status.rs 29-51, 489-579, catalyst.rs 509-514):  *)
(* validate_installation, then auto_fix when an issue is auto-fixable.     *)
(* status takes no lock.  The run is one step.                             *)
(***************************************************************************)
\* validate_hooks: the wrappers settings.json configures; none when
\* settings.json does not exist
ConfiguredHooks ==
    IF ParsesAsClaudeSettings(settings)
    THEN UNION {Range(HooksOf(settings.data.of[1], e)) : e \in HookEvents}
    ELSE {}

\* collect_issues: a configured wrapper that does not exist (auto_fixable)
MissingHooks == {w \in ConfiguredHooks : ~hooks[w].exists}

\* check_version: VersionStatus::Missing
VersionMissing == ~versionFile.exists

\* fix_hook_wrapper: fs::write(hooks_dir/<wrapper>, content); it fails, and
\* auto_fix goes on, when the hooks directory does not exist
fix_hook_wrapper(w) == IF dirs THEN File(Wrapper(tool, w)) ELSE hooks[w]

\* fix_version_file: fs::write(version_path, env!("CARGO_PKG_VERSION")),
\* without the newline write_version_file appends
fix_version_file == versionFile' = File([text |-> tool, newline |-> FALSE])

StatusFix ==
    /\ MissingHooks # {} \/ VersionMissing
    /\ hooks' = [w \in WrapperNames |->
                   IF w \in MissingHooks THEN fix_hook_wrapper(w) ELSE hooks[w]]
    /\ IF VersionMissing THEN fix_version_file ELSE UNCHANGED versionFile
    /\ UNCHANGED <<awVars, lockVars, procVars, tool, edits, claudeDir, dirs, skillDirs,
                   settings, tree, rules, skillsManifest, rootManifest>>

(***************************************************************************)
(* The environment between two runs: the user edits or deletes a file of   *)
(* the skills tree; a newer release of the tool is installed.              *)
(***************************************************************************)
Quiescent == \A p \in Procs : ~Running(p)

EditFile(t) ==
    /\ Quiescent
    /\ edits < MaxEdits
    /\ tree[t].exists
    /\ tree[t].data # UserData
    /\ tree' = [tree EXCEPT ![t] = File(UserData)]
    /\ edits' = edits + 1
    /\ UNCHANGED <<awVars, lockVars, procVars, tool, claudeDir, dirs, skillDirs, hooks,
                   settings, rules, skillsManifest, rootManifest, versionFile>>

DeleteFile(t) ==
    /\ Quiescent
    /\ edits < MaxEdits
    /\ tree[t].exists
    /\ tree' = [tree EXCEPT ![t] = Absent]
    /\ edits' = edits + 1
    /\ UNCHANGED <<awVars, lockVars, procVars, tool, claudeDir, dirs, skillDirs, hooks,
                   settings, rules, skillsManifest, rootManifest, versionFile>>

\* the user takes the read permission of a tracked SKILL.md away
RevokeRead(n) ==
    /\ Quiescent
    /\ edits < MaxEdits
    /\ tree[SkillMd(n)].exists
    /\ ~HashFails(n)
    /\ tree' = [tree EXCEPT ![SkillMd(n)] = File(Unreadable(@.data))]
    /\ edits' = edits + 1
    /\ UNCHANGED <<awVars, lockVars, procVars, tool, claudeDir, dirs, skillDirs, hooks,
                   settings, rules, skillsManifest, rootManifest, versionFile>>

Upgrade ==
    /\ Quiescent
    /\ tool < MaxVersion
    /\ tool' = tool + 1
    /\ UNCHANGED <<awVars, lockVars, procVars, diskVars, edits>>

(***************************************************************************)
(* Writing one file: write_file_atomic / try_atomic_write (init.rs         *)
(* 421-467) and fs::write, against a reader of the destination path.  The  *)
(* bytes reach a file in NChunks pieces.                                   *)
(***************************************************************************)
\* const EXDEV: i32 = 18
EXDEV == 18

\* std::io::Error: its kind() and its raw_os_error()
IoErr(kind, errno) == [kind |-> kind, raw_os_error |-> errno]

NoError == IoErr("none", 0)

PermissionDenied == IoErr("PermissionDenied", 13)

NotFound == IoErr("NotFound", 2)

CrossesDevices == IoErr("CrossesDevices", EXDEV)

StorageFull == IoErr("StorageFull", 28)

\* no error is taken for a cross-device one
is_cross_device_error_never(e) == FALSE

\* is_cross_device_error (unix): e.raw_os_error() == Some(EXDEV)
is_cross_device_error(e) == e.raw_os_error = EXDEV

\* is_temp_creation_error: kind is PermissionDenied or NotFound
is_temp_creation_error(e) == e.kind \in {"PermissionDenied", "NotFound"}

\* the first n pieces of the new content; all NChunks of them are the content
NewBytes(n) == [i \in 1..n |-> "new"]

NewContent == NewBytes(NChunks)

OldContent == <<"old">>

\* the files initialize and update persist
PersistedFiles ==
    {"wrapper", "settings", "skill_file", "skill_rules", "skills_manifest",
     "root_manifest", "version"}

\* how the code writes each of them
WriterOf(file) ==
    CASE file = "wrapper"         -> "fs_write"            \* init.rs 371, 390
      [] file = "settings"        -> "write_file_atomic"   \* init.rs 561
      [] file = "skill_file"      -> "fs_write"            \* init.rs 701, update.rs 224
      [] file = "skill_rules"     -> "write_file_atomic"   \* init.rs 769
      [] file = "skills_manifest" -> "write_file_atomic"   \* init.rs 842
      [] file = "root_manifest"   -> "fs_write"            \* update.rs 301
      [] file = "version"         -> "fs_write"            \* init.rs 914

Returns(outcome) == wr' = [wr EXCEPT !.pc = "returned", !.outcome = outcome]

\* try_atomic_write returns Err(e) from the step it is at
Fails(e) == wr' = [wr EXCEPT !.pc = "classify", !.err = e, !.failed = wr.pc]

\* the call that writes `file` starts
BeginWrite(file) ==
    /\ wr.pc = "idle"
    /\ wr' = [pc |-> IF WriterOf(file) = "write_file_atomic" THEN "temp_create" ELSE "fs_open",
              file |-> file, method |-> WriterOf(file), err |-> NoError,
              failed |-> "none", outcome |-> "none", old |-> dest]
    /\ UNCHANGED <<lockVars, procVars, diskVars, tool, edits, dest, temp, seen>>

\* NamedTempFile::new_in(parent)?
TempCreate ==
    /\ wr.pc = "temp_create"
    /\ \/ temp' = File(<<>>) /\ wr' = [wr EXCEPT !.pc = "temp_write"]
       \/ \E e \in {PermissionDenied, NotFound, StorageFull} : Fails(e) /\ UNCHANGED temp
    /\ UNCHANGED <<lockVars, procVars, diskVars, tool, edits, dest, seen>>

\* temp_file.write_all(content.as_bytes())?; on an error the temporary file
\* is dropped, which deletes it
TempWrite ==
    /\ wr.pc = "temp_write"
    /\ \/ /\ temp' = File(Append(temp.data, "new"))
          /\ wr' = [wr EXCEPT !.pc = IF Len(temp.data) + 1 = NChunks
                                     THEN "temp_flush" ELSE "temp_write"]
       \/ temp' = Absent /\ Fails(StorageFull)
    /\ UNCHANGED <<lockVars, procVars, diskVars, tool, edits, dest, seen>>

\* temp_file.flush()?
TempFlush ==
    /\ wr.pc = "temp_flush"
    /\ wr.method = "write_file_atomic"
    /\ wr' = [wr EXCEPT !.pc = "persist"]
    /\ UNCHANGED <<lockVars, procVars, diskVars, tool, edits, dest, temp, seen>>

\* the rename copies the file and leaves the temporary file in place
Persist_keeps_temp ==
    /\ wr.pc = "persist"
    /\ dest' = temp /\ temp' = temp /\ Returns("Ok(true)")
    /\ UNCHANGED <<lockVars, procVars, diskVars, tool, edits, seen>>

\* temp_file.persist(path)?: a rename; on an error the temporary file is
\* dropped with the error.  Ok(()) makes write_file_atomic return Ok(true)
\* and ClaudeSettings::write return Ok(()).
Persist ==
    /\ wr.pc = "persist"
    /\ \/ /\ dest' = temp /\ temp' = Absent
          /\ Returns(IF wr.method = "write_file_atomic" THEN "Ok(true)" ELSE "Ok(())")
       \/ \E e \in {CrossesDevices, PermissionDenied} :
             temp' = Absent /\ Fails(e) /\ UNCHANGED dest
    /\ UNCHANGED <<lockVars, procVars, diskVars, tool, edits, seen>>

\* write_file_atomic's Err(e) arm: fall back to fs::write, or Err(Io(e))
Classify ==
    /\ wr.pc = "classify"
    /\ wr.method = "write_file_atomic"
    /\ IF is_cross_device_error(wr.err) \/ is_temp_creation_error(wr.err)
       THEN wr' = [wr EXCEPT !.pc = "fs_open"]
       ELSE Returns("Err")
    /\ UNCHANGED <<lockVars, procVars, diskVars, tool, edits, dest, temp, seen>>

(* ClaudeSettings::write (settings.rs 174-207): the same temporary file and *)
(* rename, after create_dir_all and with sync_all; every error returns.    *)
\* settings.write(&path) is called
BeginSettingsWrite ==
    /\ wr.pc = "idle"
    /\ wr' = [pc |-> "create_dir_all", file |-> "settings", method |-> "ClaudeSettings::write",
              err |-> NoError, failed |-> "none", outcome |-> "none", old |-> dest]
    /\ UNCHANGED <<lockVars, procVars, diskVars, tool, edits, dest, temp, seen>>

\* fs::create_dir_all(parent).context(..)?
CreateDirAll ==
    /\ wr.pc = "create_dir_all"
    /\ \/ wr' = [wr EXCEPT !.pc = "temp_create"]
       \/ Fails(PermissionDenied)
    /\ UNCHANGED <<lockVars, procVars, diskVars, tool, edits, dest, temp, seen>>

\* temp_file.as_file().sync_all().context(..)?; on an error the temporary
\* file is dropped, which deletes it
SyncAll ==
    /\ wr.pc = "temp_flush"
    /\ wr.method = "ClaudeSettings::write"
    /\ \/ wr' = [wr EXCEPT !.pc = "persist"] /\ UNCHANGED temp
       \/ temp' = Absent /\ Fails(StorageFull)
    /\ UNCHANGED <<lockVars, procVars, diskVars, tool, edits, dest, seen>>

\* `?` in ClaudeSettings::write: the error is returned with its context
Propagate ==
    /\ wr.pc = "classify"
    /\ wr.method = "ClaudeSettings::write"
    /\ Returns("Err")
    /\ UNCHANGED <<lockVars, procVars, diskVars, tool, edits, dest, temp, seen>>

\* fs::write(path, content), first half: File::create opens the path with
\* create and truncate
FsOpen ==
    /\ wr.pc = "fs_open"
    /\ \/ dest' = File(<<>>) /\ wr' = [wr EXCEPT !.pc = "fs_write"]
       \/ Returns("Err") /\ UNCHANGED dest
    /\ UNCHANGED <<lockVars, procVars, diskVars, tool, edits, temp, seen>>

\* fs::write, second half: write_all.  After the last piece the call
\* returns: Ok(false) from write_file_atomic, Ok(()) from fs::write.
FsWrite ==
    /\ wr.pc = "fs_write"
    /\ \/ /\ dest' = File(Append(dest.data, "new"))
          /\ IF Len(dest.data) + 1 = NChunks
             THEN Returns(IF wr.method = "write_file_atomic" THEN "Ok(false)" ELSE "Ok(())")
             ELSE UNCHANGED wr
       \/ Returns("Err") /\ UNCHANGED dest
    /\ UNCHANGED <<lockVars, procVars, diskVars, tool, edits, temp, seen>>

\* the writing process is killed in the middle of the call
Crash ==
    /\ wr.pc \notin {"idle", "returned", "crashed"}
    /\ wr' = [wr EXCEPT !.pc = "crashed"]
    /\ UNCHANGED <<lockVars, procVars, diskVars, tool, edits, dest, temp, seen>>

\* another process reads the destination path while the call is running
ReadDest ==
    /\ wr.pc \notin {"idle", "returned", "crashed"}
    /\ seen' = seen \cup {dest}
    /\ UNCHANGED <<lockVars, procVars, diskVars, tool, edits, dest, temp, wr>>

(***************************************************************************)
(* Spec: processes run initialize concurrently on one directory, which may *)
(* hold a marker left behind by a process that no longer exists.           *)
(***************************************************************************)
NoCfg == [op |-> "none", force |-> FALSE, skills |-> {},
          install_hooks |-> FALSE, install_tracker |-> FALSE]

\* InitConfig values of the concurrent runs
InitConfigs ==
    [op : {"init"}, force : BOOLEAN, skills : {{}, {"skill-developer"}},
     install_hooks : {TRUE}, install_tracker : {TRUE}]

\* no write is in progress
NoWrite == [pc |-> "idle", file |-> "none", method |-> "none", err |-> NoError,
            failed |-> "none", outcome |-> "none", old |-> Absent]

InitProcs ==
    /\ alive = Procs \cup {1}
    /\ pc = [p \in Procs |-> "idle"]
    /\ cfg = [p \in Procs |-> NoCfg]
    /\ pidRead = [p \in Procs |-> NotRead]
    /\ result = [p \in Procs |-> NoResult]
    /\ runs = [p \in Procs |-> 0]
    /\ overlap = [p \in Procs |-> FALSE]
    /\ edits = 0

InitNoWrite ==
    /\ dest = Absent
    /\ temp = Absent
    /\ wr = NoWrite
    /\ seen = {}

\* a project directory catalyst has never been run on
FreshDirectory ==
    /\ dirs = FALSE
    /\ skillDirs = {}
    /\ hooks = [w \in WrapperNames |-> Absent]
    /\ settings = Absent
    /\ tree = [t \in TreePaths |-> Absent]
    /\ rules = Absent
    /\ skillsManifest = Absent
    /\ rootManifest = Absent
    /\ versionFile = Absent

Init ==
    /\ InitProcs
    /\ InitNoWrite
    /\ lock \in {Absent} \cup {LeftBehind(c) : c \in StaleContents}
    /\ tool = 1
    /\ claudeDir = TRUE
    /\ FreshDirectory

Next ==
    \/ \E p \in Procs : \E c \in InitConfigs : runs[p] < MaxRuns /\ Initialize(p, c)
    \/ \E p \in Procs : Open1(p)
    \/ \E p \in Procs : PidWrite1(p)
    \/ \E p \in Procs : ReadMarker(p)
    \/ \E p \in Procs : Probe(p)
    \/ \E p \in Procs : RemoveMarker(p)
    \/ \E p \in Procs : Open2(p)
    \/ \E p \in Procs : PidWrite2(p)
    \/ \E p \in Procs : CreateDirectoryStructure(p)
    \/ \E p \in Procs : GenerateWrapperScripts(p)
    \/ \E p \in Procs : CreateSettingsJson(p)
    \/ \E p \in Procs : InstallSkills(p)
    \/ \E p \in Procs : GenerateSkillRules(p)
    \/ \E p \in Procs : GenerateSkillHashes(p)
    \/ \E p \in Procs : WriteVersionFile(p)
    \/ \E p \in Procs : Drop(p)
    \/ \E p \in Procs : Die(p)

Spec == Init /\ [][Next]_vars

\* the same processes on a directory that holds no marker
InitEmpty == Init /\ lock = Absent

SpecEmpty == InitEmpty /\ [][Next]_vars

(***************************************************************************)
(* SpecUpd: one process runs initialize and update one after the other on  *)
(* a directory; between two runs the user edits or deletes files and a     *)
(* newer release is installed.  The directory is fresh, or it was set up   *)
(* by release 0 and holds that release's manifest at HASHES_FILE.          *)
(***************************************************************************)
FirstProc == CHOOSE p \in Procs : \A q \in Procs : p <= q

UpdConfigs ==
    InitConfigs
    \cup
    [op : {"update"}, force : BOOLEAN, skills : {{}},
     install_hooks : {FALSE}, install_tracker : {FALSE}]

\* the files release 0 installed for the skills in `tracked`
LegacyTree(tracked) ==
    [t \in TreePaths |->
        IF t[1] \in tracked /\ (t \in EmbeddedFiles \/ t = SkillMd(RetiredSkill))
        THEN File(Bundled(0, t)) ELSE Absent]

\* a directory release 0 was installed in, with a manifest of `tracked`
LegacyDirectory(tracked) ==
    /\ dirs = TRUE
    /\ skillDirs = tracked
    /\ hooks = [w \in WrapperNames |-> File(Wrapper(0, w))]
    /\ settings = File(SettingsDoc(TRUE, TRUE))
    /\ tree = LegacyTree(tracked)
    /\ rules = Absent
    /\ skillsManifest = Absent
    /\ rootManifest =
         File(CatalystHashesDoc(0, [n \in tracked |-> Sha256(Bundled(0, SkillMd(n)))]))
    /\ versionFile = File(VersionText(0))

LegacyTracked == {{"skill-developer"}, {"skill-developer", RetiredSkill}}

InitUpd ==
    /\ InitProcs
    /\ InitNoWrite
    /\ lock \in {Absent, LeftBehind(FormatU32(DeadPid))}
    /\ tool = 1
    /\ \/ claudeDir \in BOOLEAN /\ FreshDirectory
       \/ claudeDir = TRUE /\ \E tracked \in LegacyTracked : LegacyDirectory(tracked)

NextUpd ==
    \/ \E c \in UpdConfigs :
          Quiescent /\ runs[FirstProc] < MaxRunsUpd /\ Initialize(FirstProc, c)
    \/ \E c \in UpdConfigs :
          Quiescent /\ runs[FirstProc] < MaxRunsUpd /\ Update(FirstProc, c)
    \/ Open1(FirstProc)
    \/ PidWrite1(FirstProc)
    \/ ReadMarker(FirstProc)
    \/ Probe(FirstProc)
    \/ RemoveMarker(FirstProc)
    \/ Open2(FirstProc)
    \/ PidWrite2(FirstProc)
    \/ CreateDirectoryStructure(FirstProc)
    \/ GenerateWrapperScripts(FirstProc)
    \/ CreateSettingsJson(FirstProc)
    \/ InstallSkills(FirstProc)
    \/ GenerateSkillRules(FirstProc)
    \/ GenerateSkillHashes(FirstProc)
    \/ WriteVersionFile(FirstProc)
    \/ Drop(FirstProc)
    \/ ReadVersionFile(FirstProc)
    \/ RegenerateWrappers(FirstProc)
    \/ UpdateSkills(FirstProc)
    \/ UpdateVersionFile(FirstProc)
    \/ \E t \in TreePaths : EditFile(t)
    \/ \E t \in TreePaths : DeleteFile(t)
    \/ Upgrade

SpecUpd == InitUpd /\ [][NextUpd]_vars

(***************************************************************************)
(* SpecSolo: one process runs initialize on a directory no other process   *)
(* works on; the directory may hold a marker left behind.                  *)
(***************************************************************************)
NextSolo ==
    \/ \E c \in InitConfigs : runs[FirstProc] < MaxRuns /\ Initialize(FirstProc, c)
    \/ Open1(FirstProc)
    \/ PidWrite1(FirstProc)
    \/ ReadMarker(FirstProc)
    \/ Probe(FirstProc)
    \/ RemoveMarker(FirstProc)
    \/ Open2(FirstProc)
    \/ PidWrite2(FirstProc)
    \/ CreateDirectoryStructure(FirstProc)
    \/ GenerateWrapperScripts(FirstProc)
    \/ CreateSettingsJson(FirstProc)
    \/ InstallSkills(FirstProc)
    \/ GenerateSkillRules(FirstProc)
    \/ GenerateSkillHashes(FirstProc)
    \/ WriteVersionFile(FirstProc)
    \/ Drop(FirstProc)

SpecSolo == Init /\ [][NextSolo]_vars

(***************************************************************************)
(* Properties of the marker protocol                                       *)
(***************************************************************************)
\* the marker `p` created, with its pid written
OwnMarker(p) == [exists |-> TRUE, creator |-> p, content |-> FormatU32(p)]

\* the marker `p` created, before its pid is written
OwnEmptyMarker(p) == [exists |-> TRUE, creator |-> p, content |-> <<>>]

\* C1: whatever the interleaving of the processes that call
\* acquire_init_lock on one directory, at no time do two of them hold a
\* guard of that directory.
C1_MutualExclusion ==
    \A p, q \in Procs : p # q => ~(Holding(p) /\ Holding(q))

\* C2: of the processes that run initialize concurrently on a directory
\* that held no marker, one holds the guard at a time, and a process that
\* did not get the guard returned InitInProgress naming the pid of another
\* process, never some other error.
C2_OneWinnerOneInProgress ==
    /\ \A p, q \in Procs : (p # q /\ Holding(p)) => ~Holding(q)
    /\ \A p \in Procs :
          (pc[p] = "done" /\ result[p].kind # "Ok")
          => (result[p].kind = "InitInProgress" /\ result[p].pid \in Procs \ {p})

\* acquire_init_lock read, from the marker, a valid pid that names no process
ReadDeadPid(p) == pidRead[p] \notin {NotRead, ParseErr, 0, 1} /\ pidRead[p] \notin alive

\* acquire_init_lock read a marker whose content is not a valid pid
ReadInvalidPid(p) == pidRead[p] \in {ParseErr, 0, 1}

\* initialize returned after acquire_init_lock had given it the guard
ReturnedAfterAcquire(p) ==
    /\ pc[p] = "done"
    /\ result[p] = WriteRefused \/ result[p].kind \in {"Ok", "InvalidPath"}

\* after the read, without contention: the marker stays until the process
\* deletes it, the process then creates its own marker, writes its pid and
\* gets the guard, and initialize does not fail on the marker
Reclaims(p) ==
    /\ pc[p] # "read"
    /\ pc[p] \in {"probe", "remove"} => (lock.exists /\ lock.creator = DeadPid)
    /\ pc[p] = "open2" => lock = Absent
    /\ pc[p] = "pidwrite2" => lock = OwnEmptyMarker(p)
    /\ Holding(p) => lock = OwnMarker(p)
    /\ pc[p] = "done" => (ReturnedAfterAcquire(p) /\ lock = Absent)

\* C9: when the marker holds a valid pid (neither 0 nor 1) that names no
\* process on the host and no other process contends, acquire_init_lock
\* deletes the marker, creates its own and returns the guard.
C9_DeadPidReclaimed ==
    \A p \in Procs : ReadDeadPid(p) => Reclaims(p)

C9_Witness ==
    \E p \in Procs : ReadDeadPid(p) /\ Holding(p) /\ lock = OwnMarker(p)

\* the marker contents that are not a valid pid: 0, 1, not a number, empty,
\* whitespace only
InvalidContents == {<<"0">>, <<"1">>, <<"x">>, <<>>, <<" ", "\n", "\t">>}

\* C10: when the marker's content is not a valid pid (0, 1, non-numeric,
\* empty, whitespace only), acquire_init_lock does not probe any process:
\* it treats the marker as stale, deletes it and, without contention,
\* returns the guard.
C10_InvalidMarkerReclaimed ==
    \A p \in Procs :
        /\ (pc[p] \in {"probe", "remove"} /\ lock.exists /\ lock.content \in InvalidContents)
           => (pc[p] = "remove" /\ ReadInvalidPid(p))
        /\ ReadInvalidPid(p) => (pc[p] # "probe" /\ Reclaims(p))

C10_Witness ==
    \E p \in Procs : ReadInvalidPid(p) /\ pidRead[p] = 1 /\ Holding(p) /\ lock = OwnMarker(p)

(***************************************************************************)
(* SpecAW: one persisted file is written while another process reads it.   *)
(***************************************************************************)
InitAW ==
    /\ InitProcs
    /\ lock = Absent
    /\ tool = 1
    /\ claudeDir = TRUE
    /\ FreshDirectory
    /\ dest \in {Absent, File(OldContent)}
    /\ temp = Absent
    /\ wr = NoWrite
    /\ seen = {}

NextAW ==
    \/ \E file \in PersistedFiles : BeginWrite(file)
    \/ BeginSettingsWrite
    \/ CreateDirAll
    \/ SyncAll
    \/ Propagate
    \/ TempCreate
    \/ TempWrite
    \/ TempFlush
    \/ Persist
    \/ Classify
    \/ FsOpen
    \/ FsWrite
    \/ Crash
    \/ ReadDest

SpecAW == InitAW /\ [][NextAW]_vars

(***************************************************************************)
(* Properties of the file writes                                           *)
(***************************************************************************)
\* what a reader may find at the path: what was there before the call, or
\* the complete new content
OldOrNew == {wr.old, File(NewContent)}

\* C5: whenever write_file_atomic returns anything but the fallback outcome
\* Ok(false), every read of the destination path made during the call found
\* the complete previous content (or no file) or the complete new content.
C5_AtomicUnlessFallback ==
    (wr.method = "write_file_atomic" /\ wr.pc = "returned" /\ wr.outcome # "Ok(false)")
    => seen \subseteq OldOrNew

\* C6: for every file initialize or update persists (wrapper scripts,
\* settings document, skill content files, hash manifests, version marker),
\* a concurrent reader never finds anything but the old or the complete new
\* file, and a crash of the writer leaves the old or the complete new file.
C6_EveryFileAtomic ==
    /\ seen \subseteq OldOrNew
    /\ wr.pc = "crashed" => dest \in OldOrNew

(***************************************************************************)
(* Properties of update                                                    *)
(***************************************************************************)
\* the file at `t` holds bytes the user typed after the tool's last write
HandEdited(t) == tree[t].exists /\ tree[t].data = UserData

\* the step in which update_skills runs, for process p
UpdateSkillsStep(p) == pc[p] = "u_skills" /\ pc'[p] = "u_version"

\* the files the manifest written by initialize tracks
TrackedByInit == IF skillsManifest.exists THEN DOMAIN skillsManifest.data.map ELSE {}

\* C3: update with force = false overwrites no file of the skills tree that
\* the user edited since the tool last wrote it, whichever file of a skill
\* it is: the file's bytes are the same after update_skills as before.
C3_NoHandEditedFileOverwritten ==
    [][\A p \in Procs : (UpdateSkillsStep(p) /\ ~cfg[p].force)
          => \A t \in TreePaths : HandEdited(t) => tree'[t] = tree[t]]_vars

\* C4: every file tracked at install time that the user edited after
\* initialize is in the skipped list of an update without force, with
\* current_hash the digest of the edited content and expected_hash the
\* digest recorded at install time.
C4_EditedFileReportedSkipped ==
    [][\A p \in Procs : (UpdateSkillsStep(p) /\ ~cfg[p].force)
          => \A t \in TrackedByInit : HandEdited(t)
               => \E s \in result'[p].skipped_skills :
                     /\ s.name = t[1]
                     /\ s.current_hash = Sha256(tree[t].data)
                     /\ s.expected_hash = skillsManifest.data.map[t]]_vars

\* C7: when update follows initialize with no file edited in between and
\* does not take the version fast path, its skipped list is empty and every
\* skill initialize installed is in updated_skills.
C7_UpdateAfterInitRefreshesAll ==
    [][\A p \in Procs : (UpdateSkillsStep(p) /\ edits = 0)
          => /\ result'[p].skipped_skills = {}
             /\ {t[1] : t \in TrackedByInit} \subseteq result'[p].updated_skills]_vars

\* the skills HASHES_FILE tracks whose SKILL.md the user modified and for
\* which the release embeds content
ModifiedTracked ==
    IF rootManifest.exists /\ ParsesAsCatalystHashes(rootManifest.data)
    THEN {n \in DOMAIN rootManifest.data.skills :
             /\ tree[SkillMd(n)].exists
             /\ Sha256(tree[SkillMd(n)].data) # rootManifest.data.skills[n]
             /\ EmbeddedDirExists(<<n>>)}
    ELSE {}

\* C8: with force = true, a tracked file the user modified is not skipped,
\* its content becomes the bundled content, and its manifest entry becomes
\* the digest of the content just written.
C8_ForceOverwritesModified ==
    [][\A p \in Procs : (UpdateSkillsStep(p) /\ cfg[p].force)
          => \A n \in ModifiedTracked :
               /\ \A s \in result'[p].skipped_skills : s.name # n
               /\ tree'[SkillMd(n)] = File(Bundled(tool, SkillMd(n)))
               /\ rootManifest'.data.skills[n] = Sha256(Bundled(tool, SkillMd(n)))]_vars

(***************************************************************************)
(* SpecRelease: one process runs initialize several times in a row, on a   *)
(* directory where .claude may be missing (initialize then fails after it  *)
(* has acquired the lock).                                                 *)
(***************************************************************************)
InitRelease ==
    /\ InitProcs
    /\ InitNoWrite
    /\ lock \in {Absent} \cup {LeftBehind(c) : c \in StaleContents}
    /\ tool = 1
    /\ claudeDir \in BOOLEAN
    /\ FreshDirectory

NextRelease ==
    \/ \E c \in InitConfigs : runs[FirstProc] < MaxRunsUpd /\ Initialize(FirstProc, c)
    \/ Open1(FirstProc)
    \/ PidWrite1(FirstProc)
    \/ ReadMarker(FirstProc)
    \/ Probe(FirstProc)
    \/ RemoveMarker(FirstProc)
    \/ Open2(FirstProc)
    \/ PidWrite2(FirstProc)
    \/ CreateDirectoryStructure(FirstProc)
    \/ GenerateWrapperScripts(FirstProc)
    \/ CreateSettingsJson(FirstProc)
    \/ InstallSkills(FirstProc)
    \/ GenerateSkillRules(FirstProc)
    \/ GenerateSkillHashes(FirstProc)
    \/ WriteVersionFile(FirstProc)
    \/ Drop(FirstProc)

SpecRelease == InitRelease /\ [][NextRelease]_vars

(***************************************************************************)
(* SpecDie: a process runs initialize and dies at any step; once it is     *)
(* dead, another process runs initialize on the directory.                 *)
(***************************************************************************)
Heir == CHOOSE q \in Procs \ {FirstProc} : \A r \in Procs \ {FirstProc} : q <= r

InitDie ==
    /\ InitProcs
    /\ InitNoWrite
    /\ lock \in {Absent, LeftBehind(FormatU32(DeadPid))}
    /\ tool = 1
    /\ claudeDir = TRUE
    /\ FreshDirectory

NextDie ==
    \/ \E c \in InitConfigs : runs[FirstProc] < MaxRuns /\ Initialize(FirstProc, c)
    \/ \E c \in InitConfigs :
          FirstProc \notin alive /\ runs[Heir] < MaxRuns /\ Initialize(Heir, c)
    \/ Die(FirstProc)
    \/ \E p \in {FirstProc, Heir} : Open1(p)
    \/ \E p \in {FirstProc, Heir} : PidWrite1(p)
    \/ \E p \in {FirstProc, Heir} : ReadMarker(p)
    \/ \E p \in {FirstProc, Heir} : Probe(p)
    \/ \E p \in {FirstProc, Heir} : RemoveMarker(p)
    \/ \E p \in {FirstProc, Heir} : Open2(p)
    \/ \E p \in {FirstProc, Heir} : PidWrite2(p)
    \/ \E p \in {FirstProc, Heir} : CreateDirectoryStructure(p)
    \/ \E p \in {FirstProc, Heir} : GenerateWrapperScripts(p)
    \/ \E p \in {FirstProc, Heir} : CreateSettingsJson(p)
    \/ \E p \in {FirstProc, Heir} : InstallSkills(p)
    \/ \E p \in {FirstProc, Heir} : GenerateSkillRules(p)
    \/ \E p \in {FirstProc, Heir} : GenerateSkillHashes(p)
    \/ \E p \in {FirstProc, Heir} : WriteVersionFile(p)
    \/ \E p \in {FirstProc, Heir} : Drop(p)

SpecDie == InitDie /\ [][NextDie]_vars

(***************************************************************************)
(* Properties of the guard: live holders, release, dead holders            *)
(***************************************************************************)
\* process p takes a step out of the liveness test and stays alive
(***************************************************************************)
(* SpecLife: one process runs initialize and update one after the other on *)
(* a directory that holds no marker; catalyst status --fix runs at any     *)
(* time, and a newer release is installed between two runs.  The directory *)
(* is fresh, or was set up by release 0, or was set up by release 0 and    *)
(* its manifest at HASHES_FILE no longer parses as CatalystHashes.         *)
(***************************************************************************)
\* a directory of release 0 whose manifest holds a bare path -> digest object
DamagedDirectory(tracked) ==
    /\ dirs = TRUE
    /\ skillDirs = tracked
    /\ hooks = [w \in WrapperNames |-> File(Wrapper(0, w))]
    /\ settings = File(SettingsDoc(TRUE, TRUE))
    /\ tree = LegacyTree(tracked)
    /\ rules = Absent
    /\ skillsManifest = Absent
    /\ rootManifest = File(HashMapDoc([n \in tracked |-> Sha256(Bundled(0, SkillMd(n)))]))
    /\ versionFile = File(VersionText(0))

UpdateConfigs ==
    [op : {"update"}, force : BOOLEAN, skills : {{}},
     install_hooks : {FALSE}, install_tracker : {FALSE}]

LifeInitConfigs ==
    [op : {"init"}, force : {FALSE}, skills : {{"skill-developer"}},
     install_hooks : {TRUE}, install_tracker : {TRUE}]

InitLife ==
    /\ InitProcs
    /\ InitNoWrite
    /\ lock = Absent
    /\ tool = 1
    /\ claudeDir = TRUE
    /\ \/ FreshDirectory
       \/ LegacyDirectory({"skill-developer"})
       \/ DamagedDirectory({"skill-developer"})

NextLife ==
    \/ \E c \in LifeInitConfigs :
          Quiescent /\ runs[FirstProc] < MaxRunsUpd /\ Initialize(FirstProc, c)
    \/ \E c \in UpdateConfigs :
          Quiescent /\ runs[FirstProc] < MaxRunsUpd /\ Update(FirstProc, c)
    \/ Open1(FirstProc)
    \/ PidWrite1(FirstProc)
    \/ CreateDirectoryStructure(FirstProc)
    \/ GenerateWrapperScripts(FirstProc)
    \/ CreateSettingsJson(FirstProc)
    \/ InstallSkills(FirstProc)
    \/ GenerateSkillRules(FirstProc)
    \/ GenerateSkillHashes(FirstProc)
    \/ WriteVersionFile(FirstProc)
    \/ Drop(FirstProc)
    \/ ReadVersionFile(FirstProc)
    \/ RegenerateWrappers(FirstProc)
    \/ UpdateSkills(FirstProc)
    \/ UpdateVersionFile(FirstProc)
    \/ StatusFix
    \/ Upgrade

SpecLife == InitLife /\ [][NextLife]_vars

LeavesProbe(p) == pc[p] = "probe" /\ pc'[p] # "probe" /\ p \in alive'

\* C11: when the marker names a valid pid of a process that is running,
\* acquire_init_lock fails at once with InitInProgress carrying that pid,
\* and the marker and its content stay as they are.
C11_LiveHolderRefuses ==
    [][\A p \in Procs : (LeavesProbe(p) /\ pidRead[p] \in alive)
          => /\ pc'[p] = "done"
             /\ result'[p] = InitInProgress(pidRead[p])
             /\ lock' = lock]_vars

\* C12: whenever initialize returns after it acquired the lock, with a
\* report or with the error of a later step, no marker exists any more, and
\* the acquire that follows creates the marker at its first attempt.
C12_ReleasedOnReturn ==
    \A p \in Procs :
        /\ ReturnedAfterAcquire(p) => lock = Absent
        /\ runs[p] > 1 =>
             /\ pc[p] \notin {"read", "probe", "remove", "open2", "pidwrite2"}
             /\ pc[p] = "done" => ReturnedAfterAcquire(p)

C12_Witness ==
    /\ ~claudeDir
    /\ runs[FirstProc] = 2
    /\ pc[FirstProc] = "done"
    /\ result[FirstProc].kind = "InvalidPath"
    /\ lock = Absent

\* C13: when a process died inside initialize, at whatever step (between
\* the creation of the marker and the write of its pid included), the next
\* initialize by a live process finds the marker stale, deletes it, creates
\* its own and gets the guard: it never fails on the marker.
C13_DeadHolderReclaimed ==
    FirstProc \notin alive =>
        /\ pc[Heir] = "probe" => pidRead[Heir] \notin alive
        /\ pc[Heir] = "open2" => lock = Absent
        /\ pc[Heir] = "pidwrite2" => lock = OwnEmptyMarker(Heir)
        /\ Holding(Heir) => lock = OwnMarker(Heir)
        /\ pc[Heir] = "done" => (ReturnedAfterAcquire(Heir) /\ lock = Absent)

\* the heir got the guard over the empty marker of a process that died
\* before it wrote its pid
C13_Witness ==
    /\ FirstProc \notin alive
    /\ pidRead[FirstProc] = NotRead
    /\ pidRead[Heir] = ParseErr
    /\ Holding(Heir)
    /\ lock = OwnMarker(Heir)

\* C15: once initialize has written .catalyst-version, the wrapper scripts,
\* the settings document, the files of every requested skill and the hash
\* manifest are in place.
C15_VersionMarkerLast ==
    \A p \in Procs :
        (pc[p] \in {"drop", "done"} /\ result[p].kind = "Ok" /\ result[p].version_file_created)
        => /\ \A w \in WrappersFor(cfg[p].install_hooks, cfg[p].install_tracker) : hooks[w].exists
           /\ settings.exists
           /\ \A sk \in cfg[p].skills : tree[SkillMd(sk)].exists
           /\ cfg[p].skills # {} => skillsManifest.exists


(***************************************************************************)
(* Properties of update and of status --fix                                *)
(***************************************************************************)
\* C14: every step that writes the version marker or a hash manifest is
\* taken while some process holds the lock: the marker exists and carries
\* the pid of a process that acquired it and has not released it.
C14_WritesHoldLock ==
    [][(versionFile' # versionFile \/ rootManifest' # rootManifest
           \/ skillsManifest' # skillsManifest)
         => \E p \in Procs : Holding(p) /\ lock = OwnMarker(p)]_vars

\* process p takes the step of update that starts at `from`
UpdateStep(p, from) == pc[p] = from /\ pc'[p] # from

WrappersRegenerated == \A w \in WrapperNames : hooks'[w] = File(Wrapper(tool, w))

Recorded(p, error) ==
    /\ error \in result'[p].errors
    /\ ~result'[p].success

\* C16: in update no step before the last one touches the version marker;
\* the wrapper step and the skills step always go on to the next step with
\* a report, a failure of theirs being recorded in it; the last step either
\* writes the version marker and returns the report unchanged, or returns
\* the write's error and no report.
C16_VersionWrittenLastAndFatal ==
    [][\A p \in Procs :
          /\ (UpdateStep(p, "u_read_version") \/ UpdateStep(p, "u_wrappers")
                 \/ UpdateStep(p, "u_skills")) => versionFile' = versionFile
          /\ UpdateStep(p, "u_wrappers")
               => /\ pc'[p] = "u_skills"
                  /\ result'[p].kind = "Ok"
                  /\ \/ WrappersRegenerated /\ result'[p].errors = result[p].errors
                     \/ hooks' = hooks /\ Recorded(p, "Failed to update wrapper scripts")
          /\ UpdateStep(p, "u_skills")
               => /\ pc'[p] = "u_version"
                  /\ result'[p].kind = "Ok"
                  /\ \/ result'[p].errors = result[p].errors
                     \/ /\ Recorded(p, "Failed to update skills")
                        /\ UNCHANGED <<tree, rootManifest>>
          /\ UpdateStep(p, "u_version")
               => /\ pc'[p] = "done"
                  /\ \/ /\ result'[p] = result[p]
                        /\ result[p].kind = "Ok"
                        /\ versionFile' = File(VersionText(tool))
                     \/ result'[p].kind = "FileWriteFailed"]_vars

C16_Witness ==
    /\ pc[FirstProc] = "done"
    /\ cfg[FirstProc].op = "update"
    /\ result[FirstProc].kind = "Ok"
    /\ "Failed to update skills" \in result[FirstProc].errors
    /\ ~result[FirstProc].success
    /\ result[FirstProc].updated_hooks = WrapperNames
    /\ versionFile = File(VersionText(tool))

\* C17: when the version marker names the tool's version and force is not
\* set, update returns the empty successful report and no file, the lock
\* marker included, is written; and a run of update that returns a report,
\* or of initialize that returns a report saying the version file was
\* created, leaves the version marker naming the tool's version, so that the
\* update that follows takes this path.
C17_FastPathWritesNothing ==
    [][\A p \in Procs :
          /\ (UpdateStep(p, "u_read_version") /\ versionFile.exists
                 /\ versionFile.data.text = tool /\ ~cfg[p].force)
               => /\ pc'[p] = "done"
                  /\ result'[p] = NewUpdateReport
                  /\ UNCHANGED <<diskVars, lock>>
          /\ (pc[p] # "done" /\ pc'[p] = "done" /\ result'[p].kind = "Ok"
                 /\ (cfg[p].op = "init" => result'[p].version_file_created))
               => /\ versionFile'.exists
                  /\ versionFile'.data.text = tool']_vars

C17_Witness ==
    /\ runs[FirstProc] = 2
    /\ pc[FirstProc] = "done"
    /\ cfg[FirstProc].op = "update"
    /\ ~cfg[FirstProc].force
    /\ result[FirstProc] = NewUpdateReport
    /\ versionFile = File(VersionText(tool))
    /\ skillsManifest.exists

\* C18: on a directory without a version marker update returns the
\* InvalidConfig error that tells to run init first, whether force is set
\* or not, and no file is written.
C18_NotInitializedError ==
    [][\A p \in Procs :
          (UpdateStep(p, "u_read_version") /\ ~versionFile.exists)
            => /\ pc'[p] = "done"
               /\ result'[p].kind = "InvalidConfig"
               /\ result'[p].what = "No .catalyst-version file found"
               /\ UNCHANGED <<diskVars, lock>>]_vars

C18_Witness ==
    /\ pc[FirstProc] = "done"
    /\ cfg[FirstProc].op = "update"
    /\ cfg[FirstProc].force
    /\ result[FirstProc].kind = "InvalidConfig"
    /\ ~versionFile.exists
    /\ ~dirs


(***************************************************************************)
(* Properties of write_file_atomic                                         *)
(***************************************************************************)
\* write_file_atomic stopped, by a crash or with an error, and the rename
\* was not what failed
AbortedBeforeRename ==
    /\ wr.method = "write_file_atomic"
    /\ wr.err # CrossesDevices
    /\ \/ wr.pc = "crashed"
       \/ wr.pc = "returned" /\ wr.outcome = "Err"

\* C19: when write_file_atomic is aborted by a crash or an error at a step
\* before the rename, the destination path holds exactly what it held before
\* the call: its old content, or nothing if it did not exist.
C19_AbortLeavesDestination == AbortedBeforeRename => dest = wr.old

\* the rename of the running write_file_atomic failed with EXDEV
RenameCrossedDevices == wr.method = "write_file_atomic" /\ wr.err = CrossesDevices

C20_Outcome ==
    /\ RenameCrossedDevices
         => /\ wr.outcome # "Ok(true)"
            /\ wr.pc = "returned"
                 => \/ wr.outcome = "Ok(false)" /\ dest = File(NewContent)
                    \/ wr.outcome = "Err"
    /\ wr.outcome = "Ok(true)"
         => /\ wr.err = NoError
            /\ dest = File(NewContent)
            /\ temp = Absent

TempCreationRefused ==
    /\ wr.method = "write_file_atomic"
    /\ wr.failed = "temp_create"
    /\ wr.err \in {PermissionDenied, NotFound}

\* C21: when the creation of the temporary file fails with PermissionDenied
\* or NotFound, write_file_atomic writes nothing to the destination path and
\* returns an error.
C21_TempCreationFailureFails ==
    TempCreationRefused
      => /\ dest = wr.old
         /\ wr.pc = "returned" => wr.outcome = "Err"


\* a call that writes through a temporary file has returned Ok
SuccessfulAtomicWrite ==
    /\ wr.method \in {"write_file_atomic", "ClaudeSettings::write"}
    /\ wr.pc = "returned"
    /\ wr.outcome \in {"Ok(true)", "Ok(false)", "Ok(())"}

\* C22: after write_file_atomic or ClaudeSettings::write has returned Ok,
\* the destination path holds the complete new content and the temporary
\* file of the call no longer exists.
C22_OneFileNoTemp ==
    SuccessfulAtomicWrite => (dest = File(NewContent) /\ temp = Absent)

C22_Witness ==
    /\ wr.method = "ClaudeSettings::write"
    /\ wr.pc = "returned"
    /\ wr.outcome = "Ok(())"
    /\ wr.old = File(OldContent)
    /\ dest = File(NewContent)
    /\ temp = Absent


(***************************************************************************)
(* Properties of the hash manifest                                         *)
(***************************************************************************)
\* what update_skills has when it has read the manifest at HASHES_FILE
LoadedManifest == rootManifest

\* C23: when update loads the manifest, every manifest the program saved is
\* what the load finds: the manifest generate_skill_hashes saved in
\* initialize is the file update_skills reads, with the same document.
C23_ManifestRoundTrip ==
    \A p \in Procs :
        (pc[p] = "u_skills" /\ skillsManifest.exists)
          => /\ LoadedManifest.exists
             /\ LoadedManifest.data = skillsManifest.data


\* the skills of the loaded manifest (none when it is missing or unreadable)
LoadedEntries ==
    IF rootManifest.exists /\ ParsesAsCatalystHashes(rootManifest.data)
    THEN DOMAIN rootManifest.data.skills ELSE {}

\* the files the loaded manifest has an entry for
EntryFiles == {SkillMd(n) : n \in LoadedEntries}

SkippedNames(p) == {sk.name : sk \in result'[p].skipped_skills}

\* C24: in the step update_skills takes without force, an entry whose file
\* is missing is neither updated nor skipped and records no error; an entry
\* whose file has the recorded hash is not skipped; an entry whose file has
\* another hash is skipped and keeps its bytes; and a file on disk that no
\* entry of the manifest names is not reported and keeps its bytes.
C24_ClassifiesManifestEntries ==
    [][\A p \in Procs : (UpdateSkillsStep(p) /\ ~cfg[p].force)
          => /\ \A n \in LoadedEntries :
                   LET f == tree[SkillMd(n)]
                       expected == rootManifest.data.skills[n]
                   IN  /\ ~f.exists
                            => /\ n \notin result'[p].updated_skills
                               /\ n \notin SkippedNames(p)
                               /\ result'[p].errors = result[p].errors
                       /\ (f.exists /\ Sha256(f.data) = expected)
                            => n \notin SkippedNames(p)
                       /\ (f.exists /\ Sha256(f.data) # expected)
                            => /\ n \in SkippedNames(p)
                               /\ n \notin result'[p].updated_skills
                               /\ tree'[SkillMd(n)] = f
             /\ SkippedNames(p) \subseteq LoadedEntries
             /\ result'[p].updated_skills \subseteq LoadedEntries
             /\ \A t \in TreePaths \ EntryFiles :
                   tree[t].exists => tree'[t] = tree[t]]_vars


(***************************************************************************)
(* SpecHash: one process runs update on a directory release 0 set up with  *)
(* two skills; between two runs the user edits or deletes a file, or makes *)
(* a tracked SKILL.md unreadable, and a newer release is installed.        *)
(***************************************************************************)
InitHash ==
    /\ InitProcs
    /\ InitNoWrite
    /\ lock = Absent
    /\ tool = 1
    /\ claudeDir = TRUE
    /\ LegacyDirectory({"skill-developer", "route-tester"})

NextHash ==
    \/ \E c \in UpdateConfigs :
          Quiescent /\ runs[FirstProc] < MaxRunsUpd /\ Update(FirstProc, c)
    \/ ReadVersionFile(FirstProc)
    \/ RegenerateWrappers(FirstProc)
    \/ UpdateSkills(FirstProc)
    \/ UpdateVersionFile(FirstProc)
    \/ \E n \in SkillNames : RevokeRead(n)
    \/ \E t \in TreePaths : EditFile(t)
    \/ \E t \in TreePaths : DeleteFile(t)
    \/ Upgrade

SpecHash == InitHash /\ [][NextHash]_vars

\* C25: when one tracked file cannot be hashed for a reason other than
\* not-found, update_skills still classifies every other entry: an entry
\* whose file has the recorded hash is refreshed and listed as updated, and
\* an entry whose file has another hash is listed as skipped.
C25_ReadErrorNotFatal ==
    [][\A p \in Procs : (UpdateSkillsStep(p) /\ ~cfg[p].force)
          => \A n \in LoadedEntries :
               (tree[SkillMd(n)].exists /\ ~HashFails(n) /\ EmbeddedDirExists(<<n>>))
                 => IF Sha256(tree[SkillMd(n)].data) = rootManifest.data.skills[n]
                    THEN /\ n \in result'[p].updated_skills
                         /\ \A w \in copy_skill_files(<<n>>, <<n>>) :
                               tree'[w[1]] = File(Bundled(tool, w[2]))
                    ELSE n \in SkippedNames(p)]_vars


(***************************************************************************)
(* Properties of initialize                                                *)
(***************************************************************************)
\* process p makes its single retry of the exclusive create and finds a
\* marker that another process created after p removed the stale one
RetryCollides(p) ==
    /\ pc[p] = "open2"
    /\ pc'[p] # "open2"
    /\ p \in alive'
    /\ lock.exists

\* C26: the retry of the exclusive create that collides with a marker
\* created in the meantime returns InitInProgress, and the run ends there.
C26_RetryCollisionIsInProgress ==
    [][\A p \in Procs :
          RetryCollides(p) => (pc'[p] = "done" /\ result'[p].kind = "InitInProgress")]_vars


\* nothing catalyst manages exists in the directory
NothingManaged ==
    /\ ~dirs
    /\ skillDirs = {}
    /\ \A w \in WrapperNames : ~hooks[w].exists
    /\ ~settings.exists
    /\ \A t \in TreePaths : ~tree[t].exists
    /\ ~rules.exists
    /\ ~skillsManifest.exists
    /\ ~rootManifest.exists
    /\ ~versionFile.exists

MissingPrerequisiteReturned(p) ==
    (pc[p] = "done" /\ result[p].kind = "InvalidPath")
      => (lock = Absent /\ NothingManaged)

\* C27: when the .claude directory does not exist, the directory step of
\* initialize writes nothing and ends the run with the InvalidPath error
\* that names the .claude directory; when initialize has returned that
\* error, no directory, file or version marker of catalyst exists and no
\* lock marker is left.
C27_MissingClaudeDirRefused ==
    [][\A p \in Procs :
          /\ (pc[p] = "mkdirs" /\ pc'[p] # "mkdirs" /\ ~claudeDir)
               => /\ pc'[p] = "drop"
                  /\ result'[p].kind = "InvalidPath"
                  /\ result'[p].what = ".claude directory not found"
                  /\ UNCHANGED diskVars
          /\ MissingPrerequisiteReturned(p)']_vars

C27_Witness ==
    /\ ~claudeDir
    /\ runs[FirstProc] = 1
    /\ pc[FirstProc] = "done"
    /\ pidRead[FirstProc] = ParseErr
    /\ result[FirstProc] = ClaudeDirNotFound
    /\ lock = Absent
    /\ NothingManaged

\* initialize was about to write the wrappers, the settings document or the
\* skills, and after the step one of these files does not hold the bytes
\* the step was to write
InstallWriteRefused(p) ==
    \/ /\ pc[p] = "wrappers"
       /\ hooks' # generate_wrapper_scripts(cfg[p].install_hooks, cfg[p].install_tracker)
    \/ /\ pc[p] = "settings"
       /\ settings' # File(SettingsDoc(cfg[p].install_hooks, cfg[p].install_tracker))
    \/ /\ pc[p] = "skills"
       /\ pc'[p] # "skills"
       /\ \E s \in cfg[p].skills :
             /\ install_skill_ok(s, cfg[p].force)
             /\ \E w \in copy_dir_recursive(<<s>>, <<s>>) :
                   tree'[w[1]] # File(Bundled(tool, w[2]))

\* C28: when the write of a file initialize installs (a wrapper script, the
\* settings document, a content file of a requested skill) is refused,
\* initialize stops there and returns that error instead of a report, so
\* the version marker is not written.
C28_InstallFailureAborts ==
    [][\A p \in Procs :
          InstallWriteRefused(p) => (pc'[p] = "drop" /\ result'[p] = WriteRefused)]_vars

\* the manifest and the version marker a step of initialize was to write
IntendedManifest(p) == File(HashMapDoc(collect_file_hashes(result[p].installed_skills)))

IntendedVersion == File(VersionText(tool))

\* the step adds at most the warning `w` to the report, and nothing else
\* of the report changes but `field`
AddsAtMost(p, w, field) ==
    /\ result'[p].kind = "Ok"
    /\ result[p].warnings \subseteq result'[p].warnings
    /\ result'[p].warnings \subseteq result[p].warnings \cup {w}
    /\ [result'[p] EXCEPT !.warnings = {}, ![field] = FALSE]
         = [result[p] EXCEPT !.warnings = {}, ![field] = FALSE]

\* C29: in initialize a failure to write the hash manifest or the version
\* marker does not fail the run: the run goes on to its end and returns the
\* report, which holds one warning for each of the two steps that failed,
\* and version_file_created is true only if the marker was written.
C29_LateFailuresAreWarnings ==
    [][\A p \in Procs :
          /\ pc[p] = "hashes" =>
                /\ pc'[p] = "version"
                /\ AddsAtMost(p, "Failed to generate .catalyst-hashes.json",
                              "version_file_created")
                /\ result'[p].version_file_created = result[p].version_file_created
                /\ skillsManifest' # IntendedManifest(p)
                     => "Failed to generate .catalyst-hashes.json" \in result'[p].warnings
          /\ pc[p] = "version" =>
                /\ pc'[p] = "drop"
                /\ AddsAtMost(p, "Failed to write .catalyst-version", "version_file_created")
                /\ versionFile' # IntendedVersion
                     => "Failed to write .catalyst-version" \in result'[p].warnings
                /\ result'[p].version_file_created
                     => (versionFile' = IntendedVersion /\ result'[p].warnings = result[p].warnings)
          /\ (pc[p] = "drop" /\ result[p].kind = "Ok") =>
                (pc'[p] = "done" /\ result'[p] = result[p])]_vars

\* initialize returned its report although neither the manifest nor the
\* version marker could be written
C29_Witness ==
    \E p \in Procs :
        /\ pc[p] = "done"
        /\ result[p].kind = "Ok"
        /\ ~result[p].version_file_created
        /\ {"Failed to generate .catalyst-hashes.json", "Failed to write .catalyst-version"}
             \subseteq result[p].warnings
        /\ ~skillsManifest.exists
        /\ ~versionFile.exists

(***************************************************************************)
(* SpecEdit: initialize runs, once or again, on a directory whose settings *)
(* document or skill files the user edits by hand between the runs.        *)
(***************************************************************************)
\* the user rewrites .claude/settings.json by hand
EditSettings ==
    /\ Quiescent
    /\ edits < MaxEdits
    /\ settings.exists
    /\ settings.data # UserData
    /\ settings' = File(UserData)
    /\ edits' = edits + 1
    /\ UNCHANGED <<awVars, lockVars, procVars, tool, claudeDir, dirs, skillDirs, hooks,
                   tree, rules, skillsManifest, rootManifest, versionFile>>

InitEdit ==
    /\ InitProcs
    /\ InitNoWrite
    /\ lock = Absent
    /\ tool = 1
    /\ claudeDir = TRUE
    /\ \/ FreshDirectory
       \/ LegacyDirectory({"skill-developer"})

NextEdit ==
    \/ \E c \in InitConfigs :
          Quiescent /\ runs[FirstProc] < MaxRunsUpd /\ Initialize(FirstProc, c)
    \/ Open1(FirstProc)
    \/ PidWrite1(FirstProc)
    \/ CreateDirectoryStructure(FirstProc)
    \/ GenerateWrapperScripts(FirstProc)
    \/ CreateSettingsJson(FirstProc)
    \/ InstallSkills(FirstProc)
    \/ GenerateSkillRules(FirstProc)
    \/ GenerateSkillHashes(FirstProc)
    \/ WriteVersionFile(FirstProc)
    \/ Drop(FirstProc)
    \/ EditSettings
    \/ \E t \in TreePaths : EditFile(t)

SpecEdit == InitEdit /\ [][NextEdit]_vars

\* initialize is running for p without --force
InitializingUnforced(p) ==
    /\ cfg[p].op = "init"
    /\ ~cfg[p].force
    /\ pc[p] \notin {"idle", "done"}

\* C30: initialize with force = false leaves every file the user has
\* edited as it is: neither the settings document nor a content file of a
\* skill that holds the user's bytes is rewritten by one of its steps.
C30_EditedFilesKept ==
    [][\A p \in Procs :
          InitializingUnforced(p) =>
             /\ settings = File(UserData) => settings' = settings
             /\ \A t \in TreePaths : tree[t] = File(UserData) => tree'[t] = tree[t]]_vars

\* the step is the fs::remove_file of p's acquire_init_lock, and the marker
\* it removes holds the pid p read and probed
RemovesProbedMarker(p) ==
    /\ pc[p] = "remove"
    /\ lock.exists
    /\ lock' = Absent
    /\ lock.content = FormatU32(lock.creator)
    /\ pidRead[p] = lock.creator

\* C31: the acquire of one process never deletes the marker of another
\* process that is alive, whatever the liveness probe answered: only the
\* answer "no such process" lets it delete the marker.
C31_LiveMarkerNeverDeleted ==
    [][\A p \in Procs : RemovesProbedMarker(p) => lock.creator \notin alive]_vars

\* C32: whenever the marker .catalyst.lock exists, its content is the
\* decimal process id of the process that created it; it is never there
\* with empty or partial content for another process to read.
C32_MarkerHoldsCreatorPid ==
    (lock.exists /\ lock.creator \in Procs) => lock.content = FormatU32(lock.creator)

\* the entries of the root manifest, when it is a CatalystHashes document
ManifestEntries(f) ==
    IF f.exists /\ ParsesAsCatalystHashes(f.data) THEN f.data.skills ELSE <<>>

RemovesAfterProbe(p) ==
    /\ pc[p] = "remove"
    /\ pidRead[p] \notin {NotRead, ParseErr, 0, 1}
    /\ lock.exists
    /\ lock' = Absent

\* C34: the marker acquire_init_lock deletes is the marker it read and
\* judged stale: when it read the pid of a process that no longer exists,
\* the file it deletes is the one that process left behind, never a marker
\* another process created after the read.
C34_DeletesTheMarkerRead ==
    [][\A p \in Procs : RemovesAfterProbe(p) => lock.creator = pidRead[p]]_vars

\* the step is the drop of p's InitLock guard
DropsGuard(p) == pc[p] = "drop" /\ pc'[p] = "done"

\* C35: dropping an InitLock guard removes the marker only when the marker
\* on disk is the one the guard's process created; a marker that belongs to
\* another process that is alive stays, and a drop that finds no marker
\* changes nothing.
C35_DropRemovesOwnMarkerOnly ==
    [][\A p \in Procs : DropsGuard(p) =>
          /\ (lock.exists /\ lock.creator # p /\ lock.creator \in alive) => lock' = lock
          /\ ~lock.exists => lock' = lock]_vars

\* C36: update writes the tool's version into the version marker only when
\* the wrapper step and the skills step of the run recorded no error: a run
\* whose report says success = false leaves the version marker as it was,
\* so that the next update does the work again.
C36_VersionOnlyAfterSuccess ==
    [][\A p \in Procs :
          (UpdateStep(p, "u_version") /\ ~result[p].success)
            => /\ versionFile' = versionFile
               /\ (pc'[p] = "done" /\ result'[p].kind = "Ok")
                    => (versionFile'.exists /\ TrimVersion(versionFile'.data) # tool)]_vars

\* C37: when update returns its report, the SKILL.md of every skill listed
\* in updated_skills holds the bundled content of the tool's release, and
\* the manifest entry of the skill is the hash of that file.
C37_UpdatedSkillsAreRefreshed ==
    [][\A p \in Procs :
          (UpdateStep(p, "u_version") /\ result'[p].kind = "Ok")
            => \A n \in result'[p].updated_skills :
                  /\ tree'[SkillMd(n)] = File(Bundled(tool, SkillMd(n)))
                  /\ n \in DOMAIN ManifestEntries(rootManifest')
                  /\ ManifestEntries(rootManifest')[n] = Sha256(tree'[SkillMd(n)].data)]_vars

(***************************************************************************)
(* SpecAcquire: two processes contend for the lock of one directory, each  *)
(* scheduled again and again until its run of initialize has returned.     *)
(***************************************************************************)
Contenders == {FirstProc, Heir}

AcquireConfigs ==
    [op : {"init"}, force : {FALSE}, skills : {{}},
     install_hooks : {TRUE}, install_tracker : {TRUE}]

\* the next statement of p's run of initialize
ProcStep(p) ==
    \/ Open1(p)
    \/ PidWrite1(p)
    \/ ReadMarker(p)
    \/ Probe(p)
    \/ RemoveMarker(p)
    \/ Open2(p)
    \/ PidWrite2(p)
    \/ CreateDirectoryStructure(p)
    \/ GenerateWrapperScripts(p)
    \/ CreateSettingsJson(p)
    \/ WriteVersionFile(p)
    \/ Drop(p)

NextAcquire ==
    \/ \E p \in Contenders : \E c \in AcquireConfigs : runs[p] < MaxRuns /\ Initialize(p, c)
    \/ \E p \in Contenders : Open1(p)
    \/ \E p \in Contenders : PidWrite1(p)
    \/ \E p \in Contenders : ReadMarker(p)
    \/ \E p \in Contenders : Probe(p)
    \/ \E p \in Contenders : RemoveMarker(p)
    \/ \E p \in Contenders : Open2(p)
    \/ \E p \in Contenders : PidWrite2(p)
    \/ \E p \in Contenders : CreateDirectoryStructure(p)
    \/ \E p \in Contenders : GenerateWrapperScripts(p)
    \/ \E p \in Contenders : CreateSettingsJson(p)
    \/ \E p \in Contenders : WriteVersionFile(p)
    \/ \E p \in Contenders : Drop(p)

\* a process that is inside initialize is not stopped for ever
SpecAcquire ==
    Init /\ [][NextAcquire]_vars /\ \A p \in Contenders : WF_vars(ProcStep(p))

\* how far acquire_init_lock has got
AcquireRank(where) ==
    CASE where = "open1" -> 1
      [] where \in {"pidwrite1", "read"} -> 2
      [] where = "probe" -> 3
      [] where = "remove" -> 4
      [] where = "open2" -> 5
      [] where = "pidwrite2" -> 6
      [] OTHER -> 7

\* C38: acquire_init_lock always terminates: it never returns to a
\* statement it has left, so it tries the exclusive create at most twice and
\* deletes the marker at most once; when the holder is found alive, or the
\* retry meets a marker, it returns at once without trying again.
C38_AcquireTerminates ==
    /\ [][\A p \in Procs :
            /\ (pc[p] \in AcquirePcs /\ pc'[p] # pc[p])
                 => AcquireRank(pc'[p]) > AcquireRank(pc[p])
            /\ (lock'.exists /\ lock'.creator = p /\ ~(lock.exists /\ lock.creator = p))
                 => pc[p] \in {"open1", "open2"}
            /\ (pc[p] \in AcquirePcs /\ lock.exists /\ ~lock'.exists)
                 => (pc[p] = "remove" \/ \E q \in Procs \ {p} : pc[q] # pc'[q])
            /\ (pc[p] = "probe" /\ pc'[p] = "done")
                 => (result'[p] = InitInProgress(pidRead[p]) /\ lock' = lock)
            /\ (pc[p] = "open2" /\ pc'[p] # "open2" /\ lock.exists)
                 => (pc'[p] = "done" /\ lock' = lock)]_vars
    /\ \A p \in Procs : (pc[p] \in AcquirePcs) ~> (pc[p] \notin AcquirePcs)

\* one process went through both creates and the deletion and holds the
\* guard, the other found it alive and returned InitInProgress
C38_Witness ==
    \E p, q \in Procs :
        /\ Holding(p)
        /\ pidRead[p] # NotRead
        /\ lock = OwnMarker(p)
        /\ pc[q] = "done"
        /\ result[q] = InitInProgress(p)

(***************************************************************************)
(* SpecMerge: settings-manager merge is run again and again on a settings  *)
(* file that starts out empty.                                             *)
(***************************************************************************)
InitMerge ==
    /\ InitProcs
    /\ InitNoWrite
    /\ lock = Absent
    /\ tool = 1
    /\ claudeDir = TRUE
    /\ dirs = FALSE
    /\ skillDirs = {}
    /\ hooks = [w \in WrapperNames |-> Absent]
    /\ settings = File(ClaudeSettingsDoc(DefaultSettings))
    /\ tree = [t \in TreePaths |-> Absent]
    /\ rules = Absent
    /\ skillsManifest = Absent
    /\ rootManifest = Absent
    /\ versionFile = Absent

NextMerge == \E other \in MergeInputs : MergeSettings(other)

SpecMerge == InitMerge /\ [][NextMerge]_vars

\* how often x occurs in the vector
Occurrences(x, vec) == Cardinality({i \in 1..Len(vec) : vec[i] = x})

\* no item occurs more often in `after` than in `before`, but for an item
\* `before` did not hold, which occurs at most once
AddedWithoutDuplication(before, after) ==
    \A x \in Range(after) :
        Occurrences(x, after) <= IF x \in Range(before) THEN Occurrences(x, before) ELSE 1

\* C39: base.merge(other) adds the items of other's collections without
\* duplication: in the enabled MCP servers, the allow patterns and the hook
\* configurations of every event no item occurs more often than it did in
\* base, or once if base did not hold it; and merging the same other a
\* second time changes nothing.
C39_MergeAddsWithoutDuplicates ==
    [][(ParsesAsClaudeSettings(settings) /\ ParsesAsClaudeSettings(settings'))
         => LET base   == settings.data.of[1]
                merged == settings'.data.of[1]
            IN  /\ AddedWithoutDuplication(base.enabled_mcpjson_servers,
                                           merged.enabled_mcpjson_servers)
                /\ AddedWithoutDuplication(AllowOf(base), AllowOf(merged))
                /\ \A e \in HookEvents :
                      AddedWithoutDuplication(HooksOf(base, e), HooksOf(merged, e))
                /\ \A other \in MergeInputs :
                      merged = merge(base, other) => merge(merged, other) = merged]_vars

=============================================================================
